---- MODULE Spec2Model ----
(***************************************************************************)
(* DragDropManager (dnd-manager): the pointer-interaction engine as a      *)
(* state machine.  One action per DOM event, animation frame or public     *)
(* method; every handler is translated from the TypeScript source and      *)
(* runs as a whole (listeners, cleanup and callbacks included).            *)
(*                                                                         *)
(* A handler is an operator from machine record to machine record; the     *)
(* machine record `m` gathers the engine fields, the DOM attributes the    *)
(* engine writes, the browser's frame queue and the trace of host          *)
(* functions called during the current event.                              *)
(***************************************************************************)
EXTENDS Integers, Sequences, FiniteSets, TLC

\* ---------------------------------------------------------------- bounds
MaxX == 2            \* pointer x coordinates are 0..MaxX
MaxY == 1            \* pointer y coordinates are 0..MaxY
MaxFrames == 2       \* capacity of the browser's animation-frame queue
MaxScroll == 3       \* auto-scroll is worked out for windows up to this size
MaxClones == 2       \* preview clones the document is followed with
MaxStack == 2        \* nested destroy() calls the call stack has room for

\* ---------------------------------------------------------- JS values
Null == "null"                      \* null / undefined element, position, item
Falsy == ""                         \* a falsy host value that is not null
NullPos == [x |-> -1, y |-> -1]     \* a null PointerPosition
NoPointer == 0                      \* a null pointer identifier
NoRaf == 0                          \* rafId === null
PointerIds == {1, 2}                \* pointer A and pointer B
Points == [x : 0..MaxX, y : 0..MaxY]

Truthy(v) == v # Null /\ v # Falsy

\* ----------------------------------------------------------- the page
\* <body> <div container data-kind=zone>
\*            <div card data-kind=card> <span grip/> </div>
\*            <div slot data-kind=card data-empty/>
\*            <div zone data-kind=zone/>  <div chrome/> </div>
\*        <div board> <div lane data-kind=card/> </div> </body>
\* `container` is the container of the engine instance; `board` is the
\* container a second instance is constructed on.
Container == "container"
Board == "board"
Elements == {"body", "container", "card", "grip", "slot", "zone", "chrome",
             "board", "lane"}
InContainer == {"card", "grip", "slot", "zone", "chrome"}
InBoard == {"lane"}

\* the elements below a container: those whose events bubble through it
Within(container) ==
    IF container = Container THEN InContainer
    ELSE IF container = Board THEN InBoard
    ELSE {}

parentElement(el) ==
    CASE el = "grip" -> "card"
      [] el \in {"card", "slot", "zone", "chrome"} -> "container"
      [] el = "lane" -> "board"
      [] el \in {"container", "board"} -> "body"
      [] OTHER -> Null

datasetKind(el) ==
    CASE el \in {"card", "slot", "lane"} -> "card"
      [] el \in {"zone", "container"} -> "zone"
      [] OTHER -> Null

datasetEmpty(el) == el = "slot"

\* document.elementFromPoint for the page's layout: one element per point,
\* nothing outside the laid-out area
elementFromPoint(pt) ==
    CASE pt = [x |-> 0, y |-> 0] -> "grip"
      [] pt = [x |-> 1, y |-> 0] -> "zone"
      [] pt = [x |-> 2, y |-> 0] -> "lane"
      [] pt = [x |-> 0, y |-> 1] -> "slot"
      [] pt = [x |-> 1, y |-> 1] -> "card"
      [] pt = [x |-> 2, y |-> 1] -> "chrome"
      [] OTHER -> Null

\* what the host's getItemPosition returns for an element when it resolves
PositionOf(el) == "pos:" \o el
HostPositions(el) == {Null, Falsy, PositionOf(el)}
HostItems == {Null, Falsy, "item"}

\* ------------------------------------------------------ configuration
draggableKinds == {"card"}
droppableKinds == {"card", "zone"}
ScrollThreshold == 1
ScrollSpeed == 1
ViewportWidth == MaxX
ViewportHeight == MaxY

\* The configurations an instance is constructed with: the two thresholds
\* equal (as the defaults are), the click threshold above and below the drag
\* threshold, and every combination of the two cancellation toggles.
Config(dragThreshold, clickThreshold, cancelOnEscape, cancelOnPointerLeave) ==
    [dragThreshold |-> dragThreshold, clickThreshold |-> clickThreshold,
     cancelOnEscape |-> cancelOnEscape, cancelOnPointerLeave |-> cancelOnPointerLeave]

Configs ==
    {Config(2, 2, TRUE, TRUE), Config(1, 2, TRUE, FALSE),
     Config(2, 1, FALSE, TRUE), Config(1, 1, FALSE, FALSE)}

\* ------------------------------------------------------------- state
VARIABLES
    config,          \* this.config (immutable per instance)
    callbacks,       \* this.callbacks: the functions the host supplied
    state,           \* this.state : DragState
    rafId,           \* this.rafId
    lastPointerPos,  \* this.lastPointerPos
    attached,        \* the listeners registered: <<target, event type>>
    dataDragging,    \* elements carrying data-dragging
    dataHovered,     \* elements carrying data-hovered
    capture,         \* the element holding native pointer capture, or Null
    frames,          \* handles pending in the browser's frame queue
    calls,           \* host functions called while handling the last event
    fired,           \* lifecycle callbacks fired in the current session
    ev,              \* the last event and what its handling did
    peer,            \* a second instance on the same page, on `board`
    preview          \* the host's DragPreviewController and its clones

vars == <<config, callbacks, state, rafId, lastPointerPos, attached, dataDragging,
          dataHovered, capture, frames, calls, fired, ev, peer, preview>>

EmptyState ==
    [startPosition |-> NullPos,
     sourceElement |-> Null,
     sourcePosition |-> Null,
     sourceItem |-> Null,
     activePointerId |-> NoPointer,
     isDragging |-> FALSE,
     lastHoveredElement |-> Null]

Lifecycle == {"onDragStart", "onDragMove", "onDrop", "onDragEnd", "onClick"}
Accessors == {"getItemPosition", "canDrag", "getItemData"}
NoneFired == [cb \in Lifecycle |-> 0]

\* a host that supplies every callback; all but getItemPosition are optional
AllCallbacks == Lifecycle \cup Accessors

\* The machine record a handler starts from: the current fields, an empty
\* call trace and the per-event flags cleared (preventDefault called,
\* cleanup run, requestAnimationFrame called, cancelAnimationFrame called,
\* the arguments of window.scrollBy, an error of releasePointerCapture
\* swallowed).  `releaseThrows` is the browser's side of the event: whether
\* releasePointerCapture, if called, throws.
Machine ==
    [container |-> Container, callbacks |-> callbacks,
     state |-> state, rafId |-> rafId, lastPointerPos |-> lastPointerPos,
     dataDragging |-> dataDragging, dataHovered |-> dataHovered,
     capture |-> capture, frames |-> frames, attached |-> attached,
     fired |-> fired, calls |-> <<>>, prevented |-> FALSE, cleaned |-> FALSE,
     scheduled |-> FALSE, cancelled |-> FALSE, scrolled |-> <<>>,
     releaseThrows |-> FALSE, releaseThrew |-> FALSE]

\* A host function is called, if the host supplied it (callbacks.cb?.(...);
\* getItemPosition is required): the trace keeps its arguments and what the
\* host can observe from inside it (isDragging(), the DOM markers).  `fired`
\* counts the session's lifecycle callbacks; onDragMove, which a session may
\* fire without limit, is only recorded as having fired.
Invoke(m, cb, el, pos, target, item, pt) ==
    IF cb \notin m.callbacks THEN m
    ELSE
    [m EXCEPT
       !.calls = Append(@, [cb |-> cb, el |-> el, pos |-> pos, target |-> target,
                            item |-> item, pt |-> pt,
                            isDragging |-> m.state.isDragging,
                            sourceElement |-> m.state.sourceElement,
                            dataDragging |-> m.dataDragging,
                            dataHovered |-> m.dataHovered]),
       !.fired = IF cb = "onDragMove" THEN [@ EXCEPT ![cb] = 1]
                 ELSE IF cb \in Lifecycle THEN [@ EXCEPT ![cb] = @ + 1]
                 ELSE @]

\* ----------------------------------------------------------- helpers
getPointerId(e) == e.pointerId

isActivePointer(m, e) ==
    IF m.state.activePointerId = NoPointer
    THEN TRUE
    ELSE LET pointerId == getPointerId(e)
         IN  pointerId = NoPointer \/ pointerId = m.state.activePointerId

\* mutant: only elements below the instance's own container are matched
RECURSIVE findElementByKindsBelow(_, _, _)
findElementByKindsBelow(m, element, kinds) ==
    IF element \in Within(m.container)
    THEN LET elementKind == datasetKind(element)
         IN  IF Truthy(elementKind) /\ elementKind \in kinds
             THEN [element |-> element, kind |-> elementKind]
             ELSE findElementByKindsBelow(m, parentElement(element), kinds)
    ELSE [element |-> Null, kind |-> Null]

\* mutant: only the element itself is looked at, not its ancestors
findElementByKindsSelf(m, element, kinds) ==
    IF element # Null /\ element # m.container
       /\ Truthy(datasetKind(element)) /\ datasetKind(element) \in kinds
    THEN [element |-> element, kind |-> datasetKind(element)]
    ELSE [element |-> Null, kind |-> Null]

RECURSIVE findElementByKinds(_, _, _)
findElementByKinds(m, element, kinds) ==
    IF element # Null /\ element # m.container
    THEN LET elementKind == datasetKind(element)
         IN  IF Truthy(elementKind) /\ elementKind \in kinds
             THEN [element |-> element, kind |-> elementKind]
             ELSE findElementByKinds(m, parentElement(element), kinds)
    ELSE [element |-> Null, kind |-> Null]

\* getDistance is Math.sqrt(dx^2 + dy^2); it is only ever compared with a
\* threshold, and sqrt(n) >= t iff n >= t^2 for the non-negative integers
\* used here, so the comparison is made on the squares.
getDistanceSq(p1, p2) ==
    (p2.x - p1.x) * (p2.x - p1.x) + (p2.y - p1.y) * (p2.y - p1.y)

\* mutants: the comparisons with the wrong strictness
DistanceAbove(p1, p2, t) == getDistanceSq(p1, p2) > t * t
DistanceAtMost(p1, p2, t) == getDistanceSq(p1, p2) =< t * t

DistanceAtLeast(p1, p2, t) == getDistanceSq(p1, p2) >= t * t
DistanceBelow(p1, p2, t) == getDistanceSq(p1, p2) < t * t

\* requestAnimationFrame returns a handle no pending frame has
NewHandle(pending) == CHOOSE h \in 1..(MaxFrames + 1) : h \notin pending

\* ------------------------------------------------------- pointer down
\* mutant: without getItemData the session is armed with no item
pickUpWithoutItem(m, e) ==
    LET draggableMatch == findElementByKinds(m, e.target, draggableKinds) IN
    IF draggableMatch.element = Null THEN m
    ELSE
    LET draggableElement == draggableMatch.element
        m1 == Invoke(m, "getItemPosition", draggableElement, draggableMatch.kind,
                     Null, Null, NullPos)
        position == e.hostPosition
    IN
    IF ~Truthy(position) THEN m1
    ELSE IF datasetEmpty(draggableElement) THEN m1
    ELSE
    LET m2 == Invoke(m1, "canDrag", draggableElement, position, Null, Null, NullPos) IN
    IF "canDrag" \in m.callbacks /\ ~e.hostCanDrag THEN m2
    ELSE
    LET m3 == Invoke(m2, "getItemData", draggableElement, position, Null, Null, NullPos)
        item == IF "getItemData" \in m.callbacks THEN e.hostItem ELSE Null
    IN
    IF "getItemData" \in m.callbacks /\ ~Truthy(item) THEN m3
    ELSE
    LET m4 == [m3 EXCEPT
                 !.prevented = TRUE,
                 !.state.startPosition = [x |-> e.x, y |-> e.y],
                 !.state.sourceElement = draggableElement,
                 !.state.sourcePosition = position,
                 !.state.sourceItem = item,
                 !.state.activePointerId = getPointerId(e)]
    IN
    IF m4.state.activePointerId # NoPointer /\ e.captureOk
    THEN [m4 EXCEPT !.capture = draggableElement]
    ELSE m4

\* the pick-up checks and the arming of the session (lines 216-259)
pickUp(m, e) ==
    LET draggableMatch == findElementByKinds(m, e.target, draggableKinds) IN
    IF draggableMatch.element = Null THEN m
    ELSE
    LET draggableElement == draggableMatch.element
        sourceKind == draggableMatch.kind
        m1 == Invoke(m, "getItemPosition", draggableElement, sourceKind, Null, Null, NullPos)
        position == e.hostPosition
    IN
    IF ~Truthy(position) THEN m1
    ELSE IF datasetEmpty(draggableElement) THEN m1
    ELSE
    LET m2 == Invoke(m1, "canDrag", draggableElement, position, Null, Null, NullPos) IN
    IF "canDrag" \in m.callbacks /\ ~e.hostCanDrag THEN m2
    ELSE
    LET m3 == Invoke(m2, "getItemData", draggableElement, position, Null, Null, NullPos)
        \* this.callbacks.getItemData?.(...) ?? null
        item == IF "getItemData" \in m.callbacks THEN e.hostItem ELSE Null
    IN
    IF ~Truthy(item) THEN m3
    ELSE
    LET m4 == [m3 EXCEPT
                 !.prevented = TRUE,
                 !.state.startPosition = [x |-> e.x, y |-> e.y],
                 !.state.sourceElement = draggableElement,
                 !.state.sourcePosition = position,
                 !.state.sourceItem = item,
                 !.state.activePointerId = getPointerId(e)]
    IN
    IF m4.state.activePointerId # NoPointer /\ e.captureOk
    THEN [m4 EXCEPT !.capture = draggableElement]
    ELSE m4

\* mutant: no check for a session in progress
handlePointerDownUnguarded(m, e) == pickUp(m, e)

\* mutant: the default is prevented before the pick-up checks
handlePointerDownPreventing(m, e) ==
    IF m.state.startPosition # NullPos THEN m
    ELSE [pickUp(m, e) EXCEPT !.prevented = TRUE]

\* mutant: the source element is marked as soon as the session is armed
handlePointerDownMarking(m, e) ==
    IF m.state.startPosition # NullPos THEN m
    ELSE LET armed == pickUp(m, e)
         IN  IF armed.state.startPosition # NullPos
             THEN [armed EXCEPT !.dataDragging = @ \cup {armed.state.sourceElement}]
             ELSE armed

handlePointerDown(m, e) ==
    IF m.state.startPosition # NullPos THEN m
    ELSE pickUp(m, e)

\* ------------------------------------------------------------ cleanup
\* Release pointer capture if we own it.  releasePointerCapture throws for a
\* pointer that is no longer active, whose capture the browser has dropped
\* by itself; the error is caught and ignored.
releaseCapture(m) ==
    IF /\ Truthy(m.state.sourceElement)
       /\ m.state.activePointerId # NoPointer
       /\ m.capture = m.state.sourceElement
    THEN IF m.releaseThrows
         THEN [m EXCEPT !.capture = Null, !.releaseThrew = TRUE]
         ELSE [m EXCEPT !.capture = Null]
    ELSE m

\* mutant: the source element keeps data-dragging
removeDraggingSkipped(m) == m

\* remove data-dragging from the source element
removeDragging(m) ==
    IF Truthy(m.state.sourceElement)
    THEN [m EXCEPT !.dataDragging = @ \ {m.state.sourceElement}]
    ELSE m

\* mutant: the hovered element keeps data-hovered
removeHoveredSkipped(m) == m

\* remove data-hovered from the hovered element
removeHovered(m) ==
    IF Truthy(m.state.lastHoveredElement)
    THEN [m EXCEPT !.dataHovered = @ \ {m.state.lastHoveredElement}]
    ELSE m

\* mutant: the handle is forgotten but the frame is not cancelled
cancelFrameForgotten(m) ==
    IF m.rafId # NoRaf
    THEN [m EXCEPT !.rafId = NoRaf, !.cancelled = TRUE]
    ELSE m

\* cancel the pending frame
cancelFrame(m) ==
    IF m.rafId # NoRaf
    THEN [m EXCEPT !.frames = @ \ {m.rafId}, !.rafId = NoRaf, !.cancelled = TRUE]
    ELSE m

\* mutant: the end callback fires whenever a session exists
notifyDragEndArmed(m) ==
    IF m.state.startPosition # NullPos
    THEN Invoke(m, "onDragEnd", Null, Null, Null, Null, NullPos)
    ELSE m

\* mutant: the end callback is forgotten
notifyDragEndNever(m) == m

\* notify drag end
notifyDragEnd(m) ==
    IF m.state.isDragging
    THEN Invoke(m, "onDragEnd", Null, Null, Null, Null, NullPos)
    ELSE m

\* mutant: the reset leaves isDragging as it was
resetStateStillDragging(m) ==
    [m EXCEPT !.state = [EmptyState EXCEPT !.isDragging = m.state.isDragging],
              !.lastPointerPos = NullPos, !.cleaned = TRUE]

\* mutant: the reset leaves the latest pointer position in place
resetStateKeepingPointerPos(m) ==
    [m EXCEPT !.state = EmptyState, !.cleaned = TRUE]

\* mutant: the reset forgets the source item
resetStateKeepingItem(m) ==
    [m EXCEPT !.state = [EmptyState EXCEPT !.sourceItem = m.state.sourceItem],
              !.lastPointerPos = NullPos, !.cleaned = TRUE]

\* reset state
resetState(m) ==
    [m EXCEPT !.state = EmptyState, !.lastPointerPos = NullPos, !.cleaned = TRUE]

\* mutant: the error of releasePointerCapture ends the cleanup
cleanupUncaught(m) ==
    LET released == releaseCapture(m)
    IN  IF released.releaseThrew
        THEN released
        ELSE resetState(notifyDragEnd(cancelFrame(removeHovered(removeDragging(released)))))

cleanup(m) ==
    resetState(notifyDragEnd(cancelFrame(removeHovered(removeDragging(releaseCapture(m))))))

\* ------------------------------------------------------- pointer move
\* mutant: every move requests a frame
scheduleFrameAlways(m) ==
    LET h == NewHandle(m.frames)
    IN  [m EXCEPT !.rafId = h, !.frames = @ \cup {h}, !.scheduled = TRUE]

\* mutant: the position is stored but no frame is requested
scheduleFrameNever(m) == m

\* throttle to one frame: request a frame unless one is pending
scheduleFrame(m) ==
    IF m.rafId = NoRaf
    THEN LET h == NewHandle(m.frames)
         IN  [m EXCEPT !.rafId = h, !.frames = @ \cup {h}, !.scheduled = TRUE]
    ELSE m

handlePointerMove(m, e) ==
    IF ~isActivePointer(m, e) THEN m
    ELSE
    LET currentPos == [x |-> e.x, y |-> e.y] IN
    IF m.state.startPosition # NullPos /\ ~m.state.isDragging
    THEN IF DistanceAtLeast(m.state.startPosition, currentPos, config.dragThreshold)
         THEN LET m1 == [m EXCEPT !.state.isDragging = TRUE] IN
              IF /\ Truthy(m1.state.sourceElement)
                 /\ Truthy(m1.state.sourcePosition)
                 /\ Truthy(m1.state.sourceItem)
              THEN Invoke([m1 EXCEPT !.dataDragging = @ \cup {m1.state.sourceElement}],
                          "onDragStart", m1.state.sourceElement,
                          m1.state.sourcePosition, Null, m1.state.sourceItem, NullPos)
              ELSE m1
         ELSE m
    ELSE IF ~m.state.isDragging THEN m
    ELSE
    scheduleFrame([m EXCEPT !.lastPointerPos = currentPos])

\* -------------------------------------------------------- auto-scroll
\* mutant: the vertical axis is only looked at when the horizontal one is
\* away from both edges
autoScrollOneAxis(pos, innerWidth, innerHeight, scrollThreshold, scrollSpeed) ==
    LET scrollX == IF pos.x < scrollThreshold THEN -scrollSpeed
                   ELSE IF pos.x > innerWidth - scrollThreshold THEN scrollSpeed
                   ELSE 0
        scrollY == IF scrollX # 0 THEN 0
                   ELSE IF pos.y < scrollThreshold THEN -scrollSpeed
                   ELSE IF pos.y > innerHeight - scrollThreshold THEN scrollSpeed
                   ELSE 0
    IN  IF scrollX # 0 \/ scrollY # 0
        THEN << <<scrollX, scrollY>> >>
        ELSE <<>>

\* mutant: window.scrollBy is called on every frame
autoScrollEveryFrame(pos, innerWidth, innerHeight, scrollThreshold, scrollSpeed) ==
    LET scrollX == IF pos.x < scrollThreshold THEN -scrollSpeed
                   ELSE IF pos.x > innerWidth - scrollThreshold THEN scrollSpeed
                   ELSE 0
        scrollY == IF pos.y < scrollThreshold THEN -scrollSpeed
                   ELSE IF pos.y > innerHeight - scrollThreshold THEN scrollSpeed
                   ELSE 0
    IN  << <<scrollX, scrollY>> >>

\* The body of handleAutoScroll for a window of the given size and the given
\* options: the calls of window.scrollBy it makes, none or one (x, y).
autoScroll(pos, innerWidth, innerHeight, scrollThreshold, scrollSpeed) ==
    LET scrollX == IF pos.x < scrollThreshold THEN -scrollSpeed
                   ELSE IF pos.x > innerWidth - scrollThreshold THEN scrollSpeed
                   ELSE 0
        scrollY == IF pos.y < scrollThreshold THEN -scrollSpeed
                   ELSE IF pos.y > innerHeight - scrollThreshold THEN scrollSpeed
                   ELSE 0
    IN  IF scrollX # 0 \/ scrollY # 0
        THEN << <<scrollX, scrollY>> >>
        ELSE <<>>

\* `scrolled` lists the arguments of the window.scrollBy calls of the event
handleAutoScroll(m, pos) ==
    [m EXCEPT !.scrolled = @ \o autoScroll(pos, ViewportWidth, ViewportHeight,
                                           ScrollThreshold, ScrollSpeed)]

\* ----------------------------------- the requestAnimationFrame callback
\* mutant: the element being dragged is not a hover target
frameCallbackExcludingSource(m) ==
    LET m0 == [m EXCEPT !.rafId = NoRaf] IN
    IF m0.lastPointerPos = NullPos THEN m0
    ELSE
    LET pos == m0.lastPointerPos
        droppableMatch == findElementByKinds(m, elementFromPoint(pos), droppableKinds)
        droppableElement == IF droppableMatch.element = m0.state.sourceElement
                            THEN Null ELSE droppableMatch.element
        last == m0.state.lastHoveredElement
        m1 == IF droppableElement # last
              THEN LET a == IF Truthy(last)
                            THEN [m0 EXCEPT !.dataHovered = @ \ {last}]
                            ELSE m0
                   IN  IF droppableElement # Null
                       THEN [a EXCEPT !.dataHovered = @ \cup {droppableElement},
                                      !.state.lastHoveredElement = droppableElement]
                       ELSE [a EXCEPT !.state.lastHoveredElement = Null]
              ELSE m0
        m2 == handleAutoScroll(m1, pos)
    IN  Invoke(m2, "onDragMove", m2.state.lastHoveredElement, Null, Null, Null, pos)

\* mutant: the element hovered before keeps data-hovered
frameCallbackKeepingHover(m) ==
    LET m0 == [m EXCEPT !.rafId = NoRaf] IN
    IF m0.lastPointerPos = NullPos THEN m0
    ELSE
    LET pos == m0.lastPointerPos
        droppableElement ==
            findElementByKinds(m, elementFromPoint(pos), droppableKinds).element
        m1 == IF droppableElement # m0.state.lastHoveredElement
              THEN IF droppableElement # Null
                   THEN [m0 EXCEPT !.dataHovered = @ \cup {droppableElement},
                                   !.state.lastHoveredElement = droppableElement]
                   ELSE [m0 EXCEPT !.state.lastHoveredElement = Null]
              ELSE m0
        m2 == handleAutoScroll(m1, pos)
    IN  Invoke(m2, "onDragMove", m2.state.lastHoveredElement, Null, Null, Null, pos)

frameCallback(m) ==
    LET m0 == [m EXCEPT !.rafId = NoRaf] IN
    IF m0.lastPointerPos = NullPos THEN m0
    ELSE
    LET pos == m0.lastPointerPos
        elementUnderCursor == elementFromPoint(pos)
        droppableMatch == findElementByKinds(m, elementUnderCursor, droppableKinds)
        droppableElement == droppableMatch.element
        last == m0.state.lastHoveredElement
        m1 == IF droppableElement # last
              THEN LET a == IF Truthy(last)
                            THEN [m0 EXCEPT !.dataHovered = @ \ {last}]
                            ELSE m0
                   IN  IF droppableElement # Null
                       THEN [a EXCEPT !.dataHovered = @ \cup {droppableElement},
                                      !.state.lastHoveredElement = droppableElement]
                       ELSE [a EXCEPT !.state.lastHoveredElement = Null]
              ELSE m0
        m2 == handleAutoScroll(m1, pos)
    IN  Invoke(m2, "onDragMove", m2.state.lastHoveredElement, Null, Null, Null, pos)

\* --------------------------------------------------------- pointer up
\* mutant: the drop is notified whatever getItemPosition returned
handlePointerUpUnresolved(m, e) ==
    IF ~isActivePointer(m, e) THEN m
    ELSE IF ~m.state.isDragging THEN cleanup(m)
    ELSE
    LET droppableMatch == findElementByKinds(m, e.under, droppableKinds) IN
    IF droppableMatch.element # Null
    THEN cleanup(Invoke(Invoke(m, "getItemPosition", droppableMatch.element,
                               droppableMatch.kind, Null, Null, NullPos),
                        "onDrop", Null, m.state.sourcePosition, e.hostPosition,
                        m.state.sourceItem, NullPos))
    ELSE cleanup(m)

\* mutant: a click leaves the session in place
handlePointerUpKeepingSession(m, e) ==
    IF ~isActivePointer(m, e) THEN m
    ELSE
    IF m.state.startPosition # NullPos /\ ~m.state.isDragging
    THEN LET currentPos == [x |-> e.x, y |-> e.y]
         IN  IF /\ DistanceBelow(m.state.startPosition, currentPos, config.clickThreshold)
                /\ Truthy(m.state.sourceElement)
                /\ Truthy(m.state.sourcePosition)
             THEN Invoke(m, "onClick", m.state.sourceElement,
                         m.state.sourcePosition, Null, Null, NullPos)
             ELSE cleanup(m)
    ELSE
    IF ~m.state.isDragging \/ ~Truthy(m.state.sourcePosition) \/ ~Truthy(m.state.sourceItem)
    THEN cleanup(m)
    ELSE
    LET droppableMatch == findElementByKinds(m, e.under, droppableKinds)
        droppableElement == droppableMatch.element
    IN
    IF droppableElement # Null
    THEN LET m1 == Invoke(m, "getItemPosition", droppableElement, droppableMatch.kind,
                          Null, Null, NullPos)
             targetPosition == e.hostPosition
             m2 == IF Truthy(targetPosition)
                   THEN Invoke(m1, "onDrop", Null, m1.state.sourcePosition,
                               targetPosition, m1.state.sourceItem, NullPos)
                   ELSE m1
         IN  cleanup(m2)
    ELSE cleanup(m)

\* `e.under` is document.elementFromPoint(e.clientX, e.clientY) and
\* `e.hostPosition` what getItemPosition returns for the drop target
handlePointerUp(m, e) ==
    IF ~isActivePointer(m, e) THEN m
    ELSE
    IF m.state.startPosition # NullPos /\ ~m.state.isDragging
    THEN LET currentPos == [x |-> e.x, y |-> e.y]
             m1 == IF /\ DistanceBelow(m.state.startPosition, currentPos, config.clickThreshold)
                      /\ Truthy(m.state.sourceElement)
                      /\ Truthy(m.state.sourcePosition)
                   THEN Invoke(m, "onClick", m.state.sourceElement,
                               m.state.sourcePosition, Null, Null, NullPos)
                   ELSE m
         IN  cleanup(m1)
    ELSE
    IF ~m.state.isDragging \/ ~Truthy(m.state.sourcePosition) \/ ~Truthy(m.state.sourceItem)
    THEN cleanup(m)
    ELSE
    LET droppableMatch == findElementByKinds(m, e.under, droppableKinds)
        droppableElement == droppableMatch.element
    IN
    IF droppableElement # Null
    THEN LET m1 == Invoke(m, "getItemPosition", droppableElement, droppableMatch.kind,
                          Null, Null, NullPos)
             targetPosition == e.hostPosition
             m2 == IF Truthy(targetPosition)
                   THEN Invoke(m1, "onDrop", Null, m1.state.sourcePosition,
                               targetPosition, m1.state.sourceItem, NullPos)
                   ELSE m1
         IN  cleanup(m2)
    ELSE cleanup(m)

\* ------------------------------------------------------ cancellations
\* mutant: a cancelled drag is dropped without telling the host
handlePointerCancelQuiet(m) ==
    resetState(cancelFrame(removeHovered(removeDragging(releaseCapture(m)))))

handlePointerCancel(m) == cleanup(m)

\* mutant: the cancelOnEscape toggle is not consulted
handleKeyDownUngated(m, e) ==
    IF e.key # "Escape" THEN m
    ELSE IF m.state.startPosition = NullPos THEN m
    ELSE cleanup(m)

\* mutant: the key test is inverted
handleKeyDownOtherKeys(m, e) ==
    IF ~config.cancelOnEscape THEN m
    ELSE IF e.key = "Escape" THEN m
    ELSE IF m.state.startPosition = NullPos THEN m
    ELSE cleanup(m)

handleKeyDown(m, e) ==
    IF ~config.cancelOnEscape THEN m
    ELSE IF e.key # "Escape" THEN m
    ELSE IF m.state.startPosition = NullPos THEN m
    ELSE cleanup(m)

\* mutant: the related target is not looked at
handleMouseOutAnyTarget(m, e) ==
    IF ~config.cancelOnPointerLeave THEN m
    ELSE IF m.state.startPosition = NullPos THEN m
    ELSE cleanup(m)

handleMouseOut(m, e) ==
    IF ~config.cancelOnPointerLeave THEN m
    ELSE IF m.state.startPosition = NullPos THEN m
    ELSE IF e.relatedTarget # Null THEN m
    ELSE cleanup(m)

\* ------------------------------------------------------ public reads
isDragging == state.isDragging

\* mutant: the session object itself is handed out
getStateLive(m) == [object |-> "state", fields |-> m.state]

\* getState() returns { ...this.state }: a new object that holds the values
\* of the session object's fields
getState(m) == [object |-> "snapshot", fields |-> m.state]

\* ----------------------------------------------------------- teardown
\* the listeners attachListeners registers with addEventListener
attachListeners ==
    {<<"container", "pointerdown">>, <<"container", "pointermove">>,
     <<"container", "pointerup">>, <<"container", "pointercancel">>,
     <<"window", "pointerup">>, <<"window", "pointercancel">>,
     <<"window", "keydown">>, <<"window", "mouseout">>}

\* the listeners destroy() takes off with removeEventListener
removeListeners ==
    {<<"container", "pointerdown">>, <<"container", "pointermove">>,
     <<"container", "pointerup">>, <<"container", "pointercancel">>,
     <<"window", "pointerup">>, <<"window", "pointercancel">>,
     <<"window", "keydown">>, <<"window", "mouseout">>}

\* mutant: the pointerdown listener stays on the container
destroyKeepingPointerDown(m) ==
    [cleanup(m) EXCEPT !.attached = @ \ (removeListeners \ {<<"container", "pointerdown">>})]

\* destroy() runs cleanup and removes the listeners
destroy(m) == [cleanup(m) EXCEPT !.attached = @ \ removeListeners]

\* ------------------------------------------------- event dispatch
\* The listeners of attachListeners: pointerdown and pointermove on the
\* container; pointerup and pointercancel on the container and on the
\* window, so an event that bubbles through the container runs the handler
\* twice (listeners = 2) and one outside it once; keydown and mouseout on
\* the window.  An event runs the handlers of the listeners still registered.
EventPointerIds == PointerIds \cup {NoPointer}

\* What the browser does with an event for one instance `m`: the handlers
\* of m's listeners run, the container's if the event's target lies below
\* m's container (`below`), then the window's.
DispatchPointerDown(m, e, below) ==
    LET r == IF below /\ <<"container", "pointerdown">> \in m.attached
             THEN handlePointerDown(m, e) ELSE m
    IN  \* a new session starts with no lifecycle callback fired
        IF m.state.startPosition = NullPos /\ r.state.startPosition # NullPos
        THEN [r EXCEPT !.fired = NoneFired]
        ELSE r

DispatchPointerMove(m, e, below) ==
    IF below /\ <<"container", "pointermove">> \in m.attached
    THEN handlePointerMove(m, e) ELSE m

DispatchPointerUp(m, e, below) ==
    LET m1 == IF below /\ <<"container", "pointerup">> \in m.attached
              THEN handlePointerUp(m, e) ELSE m
    IN  IF <<"window", "pointerup">> \in m.attached
        THEN handlePointerUp(m1, e) ELSE m1

DispatchPointerCancel(m, below) ==
    LET m1 == IF below /\ <<"container", "pointercancel">> \in m.attached
              THEN handlePointerCancel(m) ELSE m
    IN  IF <<"window", "pointercancel">> \in m.attached
        THEN handlePointerCancel(m1) ELSE m1

DispatchKeyDown(m, e) ==
    IF <<"window", "keydown">> \in m.attached THEN handleKeyDown(m, e) ELSE m

DispatchMouseOut(m, e) ==
    IF <<"window", "mouseout">> \in m.attached THEN handleMouseOut(m, e) ELSE m

\* The events of the instance on `container`.  `listeners` is 2 for a
\* pointerup or pointercancel that bubbles through the container and 1 for
\* one that only reaches the window.
OnPointerDown(pt, pointerId, hostPosition, hostCanDrag, hostItem, captureOk) ==
    DispatchPointerDown(Machine,
                        [pointerId |-> pointerId, x |-> pt.x, y |-> pt.y,
                         target |-> elementFromPoint(pt),
                         hostPosition |-> hostPosition,
                         hostCanDrag |-> hostCanDrag, hostItem |-> hostItem,
                         captureOk |-> captureOk],
                        TRUE)

OnPointerMove(pt, pointerId) ==
    DispatchPointerMove(Machine, [pointerId |-> pointerId, x |-> pt.x, y |-> pt.y],
                        TRUE)

OnPointerUp(pt, pointerId, hostPosition, listeners) ==
    DispatchPointerUp(Machine,
                      [pointerId |-> pointerId, x |-> pt.x, y |-> pt.y,
                       under |-> elementFromPoint(pt), hostPosition |-> hostPosition],
                      listeners = 2)

OnPointerCancel(listeners) == DispatchPointerCancel(Machine, listeners = 2)

OnKeyDown(key) == DispatchKeyDown(Machine, [key |-> key])

OnMouseOut(relatedTarget) == DispatchMouseOut(Machine, [relatedTarget |-> relatedTarget])

\* the browser takes frame h off its queue and runs the callback
OnFrame(h) == frameCallback([Machine EXCEPT !.frames = @ \ {h}])

OnDestroy == destroy(Machine)

\* -------------------------------------------------- the preview helper
\* DragPreviewController (drag-preview-controller.ts).  `clones` are the
\* clones in the document; a clone is a node with an identity, the element
\* it was cloned from and its style.transform.  `previewElement` refers to
\* a clone by its identity.  `last` is the method called last, `removed`
\* the clone that call took out of the document, and `wired` tells whether
\* the host calls the helper from the engine's callbacks.
NoClone == 0
OFFSCREEN_TRANSFORM == [x |-> -9999, y |-> -9999, centered |-> FALSE]

DragPreviewController(centerOnCursor, wired) ==
    [centerOnCursor |-> centerOnCursor, previewElement |-> NoClone, clones |-> {},
     last |-> "constructor", removed |-> NoClone, wired |-> wired]

\* element.cloneNode(true) returns a node that is none of the document's and
\* not the one the helper referred to before
cloneNode(p) ==
    CHOOSE id \in 1..(MaxClones + 1) :
        id # p.previewElement /\ \A c \in p.clones : c.id # id

stop(p) ==
    [p EXCEPT !.clones = IF p.previewElement # NoClone
                         THEN {c \in @ : c.id # p.previewElement}
                         ELSE @,
              !.removed = p.previewElement,
              !.previewElement = NoClone,
              !.last = "stop"]

\* mutant: the previous preview is not discarded
startFromElementKeeping(p, element) ==
    LET clone == [id |-> cloneNode(p), of |-> element, transform |-> OFFSCREEN_TRANSFORM]
    IN  [p EXCEPT !.clones = @ \cup {clone},
                  !.previewElement = clone.id,
                  !.removed = NoClone,
                  !.last = "startFromElement"]

startFromElement(p, element) ==
    LET p1 == stop(p)
        clone == [id |-> cloneNode(p), of |-> element, transform |-> OFFSCREEN_TRANSFORM]
    IN  [p1 EXCEPT !.clones = @ \cup {clone},
                   !.previewElement = clone.id,
                   !.last = "startFromElement"]

moveToPointer(p, pos) ==
    IF p.previewElement = NoClone
    THEN [p EXCEPT !.removed = NoClone, !.last = "moveToPointer"]
    ELSE [p EXCEPT !.removed = NoClone,
                   !.clones = {IF c.id = p.previewElement
                               THEN [c EXCEPT !.transform =
                                        [x |-> pos.x, y |-> pos.y,
                                         centered |-> p.centerOnCursor]]
                               ELSE c : c \in @},
                   !.last = "moveToPointer"]

destroyPreview(p) == [stop(p) EXCEPT !.last = "destroy"]

\* The callbacks of the test harness: onDragStart starts the preview from
\* the source element, onDragMove moves it, onDragEnd stops it.  They run in
\* the order the engine called them.
Callback(p, call) ==
    CASE call.cb = "onDragStart" -> startFromElement(p, call.el)
      [] call.cb = "onDragMove" -> moveToPointer(p, call.pt)
      [] call.cb = "onDragEnd" -> stop(p)
      [] OTHER -> p

RECURSIVE Callbacks(_, _)
Callbacks(p, trace) ==
    IF trace = <<>> THEN p
    ELSE Callbacks(Callback(p, Head(trace)), Tail(trace))

\* ---------------------------------------------------------- the steps
\* where the session stands: no session, armed, or dragging
Phase ==
    IF state.startPosition = NullPos THEN "idle"
    ELSE IF state.isDragging THEN "dragging"
    ELSE "armed"

\* A step leaves the machine record the handlers returned in the variables
\* and, in `ev`, the event that was dispatched (its type, its pointer id, its
\* key or related target) and where the session stood when it arrived.
ApplyBoth(m, other, type, pointerId, detail) ==
    /\ state' = m.state
    /\ rafId' = m.rafId
    /\ lastPointerPos' = m.lastPointerPos
    /\ attached' = m.attached
    /\ dataDragging' = m.dataDragging
    /\ dataHovered' = m.dataHovered
    /\ capture' = m.capture
    /\ frames' = m.frames
    /\ calls' = m.calls
    /\ fired' = m.fired
    /\ ev' = [type |-> type, pointerId |-> pointerId, detail |-> detail,
              before |-> Phase, prevented |-> m.prevented,
              cleaned |-> m.cleaned, scheduled |-> m.scheduled,
              cancelled |-> m.cancelled, scrolled |-> m.scrolled,
              releaseThrew |-> m.releaseThrew]
    /\ config' = config
    /\ callbacks' = callbacks
    /\ peer' = other
    /\ preview' = IF preview.wired THEN Callbacks(preview, m.calls) ELSE preview

\* a step of the page with one instance: the second one hears nothing
Apply(m, type, pointerId, detail) == ApplyBoth(m, peer, type, pointerId, detail)

\* a freshly constructed instance on `container` with the given listeners
Instance(container, listeners) ==
    [container |-> container, callbacks |-> AllCallbacks,
     state |-> EmptyState, rafId |-> NoRaf,
     lastPointerPos |-> NullPos, dataDragging |-> {}, dataHovered |-> {},
     capture |-> Null, frames |-> {}, attached |-> listeners,
     fired |-> NoneFired, calls |-> <<>>, prevented |-> FALSE, cleaned |-> FALSE,
     scheduled |-> FALSE, cancelled |-> FALSE, scrolled |-> <<>>,
     releaseThrows |-> FALSE, releaseThrew |-> FALSE]

Init ==
    /\ config \in Configs
    /\ callbacks = AllCallbacks
    /\ state = EmptyState
    /\ rafId = NoRaf
    /\ lastPointerPos = NullPos
    /\ attached = attachListeners
    /\ dataDragging = {}
    /\ dataHovered = {}
    /\ capture = Null
    /\ frames = {}
    /\ calls = <<>>
    /\ fired = NoneFired
    /\ ev = [type |-> "construct", pointerId |-> NoPointer, detail |-> Null,
             before |-> "idle", prevented |-> FALSE,
             cleaned |-> FALSE, scheduled |-> FALSE, cancelled |-> FALSE,
             scrolled |-> <<>>, releaseThrew |-> FALSE]
    /\ peer = Instance(Board, {})        \* no second instance is constructed
    /\ preview = DragPreviewController(TRUE, FALSE)

\* ------------------------------------------------------- construction
\* The first argument of the constructor: a selector, a ref wrapper
\* ({ current }) or the element itself.
ContainerRefs == {"#container", "#missing", "ref", "emptyRef", "element"}

\* document.querySelector on the page: only `container` has that id
querySelector(selector) == IF selector = "#container" THEN Container ELSE Null

\* containerRef.current
current(containerRef) == IF containerRef = "ref" THEN Container ELSE Null

\* mutant: a ref wrapper is taken as it is, whatever it holds
resolveContainerUnchecked(containerRef) ==
    IF containerRef \in {"#container", "#missing"}
    THEN LET element == querySelector(containerRef)
         IN  IF element = Null
             THEN [threw |-> TRUE, container |-> Null]
             ELSE [threw |-> FALSE, container |-> element]
    ELSE IF containerRef \in {"ref", "emptyRef"}
    THEN [threw |-> FALSE, container |-> current(containerRef)]
    ELSE [threw |-> FALSE, container |-> Container]

\* resolve container element (lines 158-172)
resolveContainer(containerRef) ==
    IF containerRef \in {"#container", "#missing"}          \* typeof 'string'
    THEN LET element == querySelector(containerRef)
         IN  IF element = Null
             THEN [threw |-> TRUE, container |-> Null]
             ELSE [threw |-> FALSE, container |-> element]
    ELSE IF containerRef \in {"ref", "emptyRef"}            \* 'current' in it
    THEN IF current(containerRef) = Null
         THEN [threw |-> TRUE, container |-> Null]
         ELSE [threw |-> FALSE, container |-> current(containerRef)]
    ELSE [threw |-> FALSE, container |-> Container]

\* new DragDropManager(containerRef, ...): the instance with its listeners
\* attached, or an error thrown before anything was attached
constructor(containerRef) ==
    LET resolved == resolveContainer(containerRef)
    IN  IF resolved.threw
        THEN [threw |-> TRUE, instance |-> Instance(Null, {})]
        ELSE [threw |-> FALSE,
              instance |-> Instance(resolved.container, attachListeners)]

\* The page after `new DragDropManager(containerRef, config, callbacks)` has
\* returned or thrown; `ev` keeps the argument and the outcome.
InitConstruct ==
    \E containerRef \in ContainerRefs :
    LET made == constructor(containerRef) IN
    /\ config \in Configs
    /\ callbacks = made.instance.callbacks
    /\ state = made.instance.state
    /\ rafId = made.instance.rafId
    /\ lastPointerPos = made.instance.lastPointerPos
    /\ attached = made.instance.attached
    /\ dataDragging = made.instance.dataDragging
    /\ dataHovered = made.instance.dataHovered
    /\ capture = made.instance.capture
    /\ frames = made.instance.frames
    /\ calls = made.instance.calls
    /\ fired = made.instance.fired
    /\ ev = [type |-> IF made.threw THEN "throw" ELSE "construct",
             pointerId |-> NoPointer, detail |-> containerRef,
             before |-> "idle", prevented |-> FALSE,
             cleaned |-> FALSE, scheduled |-> FALSE, cancelled |-> FALSE,
             scrolled |-> <<>>, releaseThrew |-> FALSE]
    /\ peer = Instance(Board, {})
    /\ preview = DragPreviewController(TRUE, FALSE)

\* The host's answers are enumerated only where the handler asks for them.
OnlyIf(asked, answers, unused) == IF asked THEN answers ELSE {unused}

\* the draggable a pointerdown at pt would pick up, the droppable under pt
DraggableAt(pt) == findElementByKinds(Machine, elementFromPoint(pt), draggableKinds).element
DroppableAt(pt) == findElementByKinds(Machine, elementFromPoint(pt), droppableKinds).element

\* pointerdown on an element of the container
PointerDown ==
    \E pt \in Points, pointerId \in EventPointerIds :
    LET asked == state.startPosition = NullPos /\ DraggableAt(pt) # Null
                 /\ <<"container", "pointerdown">> \in attached
    IN
    /\ elementFromPoint(pt) \in InContainer
    /\ \E hostPosition \in OnlyIf(asked, HostPositions(DraggableAt(pt)), Null) :
       \E hostCanDrag \in OnlyIf(asked /\ Truthy(hostPosition), BOOLEAN, FALSE) :
       \E hostItem \in OnlyIf(asked /\ hostCanDrag, HostItems, Null) :
       \E captureOk \in OnlyIf(asked /\ Truthy(hostItem), BOOLEAN, FALSE) :
          Apply(OnPointerDown(pt, pointerId, hostPosition, hostCanDrag, hostItem, captureOk),
                "pointerdown", pointerId, Null)

\* A pointer event is targeted at the element holding the pointer capture,
\* or else at the element under the pointer; it bubbles through the
\* container when that element is inside it.
ThroughContainer(pt) == capture # Null \/ elementFromPoint(pt) \in InContainer

\* pointermove that reaches the container listener
PointerMove ==
    \E pt \in Points, pointerId \in EventPointerIds :
        /\ ThroughContainer(pt)
        /\ Apply(OnPointerMove(pt, pointerId), "pointermove", pointerId, Null)

\* pointerup: container and window listeners, or the window's alone when
\* the pointer is released outside the container; `ev` keeps in `detail`
\* where the event was dispatched, below the container or outside it
PointerUp ==
    \E pt \in Points, pointerId \in EventPointerIds :
    LET asked == state.isDragging /\ DroppableAt(pt) # Null /\ attached # {}
        listeners == IF ThroughContainer(pt) THEN 2 ELSE 1
    IN
    \E hostPosition \in OnlyIf(asked, HostPositions(DroppableAt(pt)), Null) :
        Apply(OnPointerUp(pt, pointerId, hostPosition, listeners), "pointerup", pointerId,
              IF listeners = 2 THEN "container" ELSE "window")

PointerCancel ==
    \E pointerId \in EventPointerIds, listeners \in {1, 2} :
        Apply(OnPointerCancel(listeners), "pointercancel", pointerId, Null)

KeyDown ==
    \E key \in {"Escape", "Enter"} :
        Apply(OnKeyDown(key), "keydown", NoPointer, key)

MouseOut ==
    \E relatedTarget \in {Null, "body"} :
        Apply(OnMouseOut(relatedTarget), "mouseout", NoPointer, relatedTarget)

\* the browser runs a pending animation frame
Frame ==
    \E h \in frames :
        Apply(OnFrame(h), "frame", NoPointer, Null)

\* the host calls destroy()
Destroy ==
    Apply(OnDestroy, "destroy", NoPointer, Null)

Next ==
    \/ PointerDown
    \/ PointerMove
    \/ PointerUp
    \/ PointerCancel
    \/ KeyDown
    \/ MouseOut
    \/ Frame
    \/ Destroy

Spec == Init /\ [][Next]_vars

\* the same page, from any way of constructing the instance
SpecConstruct == InitConstruct /\ [][Next]_vars

\* ------------------------------------------ a release of capture that throws
\* The same page in a browser whose releasePointerCapture may throw.  The
\* events that can run cleanup come with the browser's answer, which is
\* only drawn when cleanup will ask for the release.
Browser(releaseThrows) == [Machine EXCEPT !.releaseThrows = releaseThrows]

\* cleanup would call releasePointerCapture
ReleaseDue ==
    /\ state.sourceElement # Null
    /\ state.activePointerId # NoPointer
    /\ capture = state.sourceElement

CapturePointerUp ==
    \E pt \in Points, pointerId \in EventPointerIds :
    LET asked == state.isDragging /\ DroppableAt(pt) # Null /\ attached # {} IN
    \E hostPosition \in OnlyIf(asked, HostPositions(DroppableAt(pt)), Null) :
    \E releaseThrows \in OnlyIf(ReleaseDue, BOOLEAN, FALSE) :
        Apply(DispatchPointerUp(Browser(releaseThrows),
                                [pointerId |-> pointerId, x |-> pt.x, y |-> pt.y,
                                 under |-> elementFromPoint(pt),
                                 hostPosition |-> hostPosition],
                                ThroughContainer(pt)),
              "pointerup", pointerId, Null)

CapturePointerCancel ==
    \E pointerId \in EventPointerIds, below \in BOOLEAN :
    \E releaseThrows \in OnlyIf(ReleaseDue, BOOLEAN, FALSE) :
        Apply(DispatchPointerCancel(Browser(releaseThrows), below),
              "pointercancel", pointerId, Null)

CaptureKeyDown ==
    \E key \in {"Escape", "Enter"} :
    \E releaseThrows \in OnlyIf(ReleaseDue, BOOLEAN, FALSE) :
        Apply(DispatchKeyDown(Browser(releaseThrows), [key |-> key]),
              "keydown", NoPointer, key)

CaptureMouseOut ==
    \E relatedTarget \in {Null, "body"} :
    \E releaseThrows \in OnlyIf(ReleaseDue, BOOLEAN, FALSE) :
        Apply(DispatchMouseOut(Browser(releaseThrows), [relatedTarget |-> relatedTarget]),
              "mouseout", NoPointer, relatedTarget)

CaptureDestroy ==
    \E releaseThrows \in OnlyIf(ReleaseDue, BOOLEAN, FALSE) :
        Apply(destroy(Browser(releaseThrows)), "destroy", NoPointer, Null)

NextCapture ==
    \/ PointerDown
    \/ PointerMove
    \/ CapturePointerUp
    \/ CapturePointerCancel
    \/ CaptureKeyDown
    \/ CaptureMouseOut
    \/ Frame
    \/ CaptureDestroy

\* an instance with the default options: equal thresholds, both toggles on
InitCapture == Init /\ config = Config(2, 2, TRUE, TRUE)

SpecCapture == InitCapture /\ [][NextCapture]_vars

\* ------------------------------------------------------ the host reads
\* The same page with a host that inspects the engine between events, as
\* the state inspector of the demo does.  The host may assign to a field of
\* the object getState() gave it; the assignment lands in the object the
\* reference points at.
StateFields == DOMAIN EmptyState

\* a value the host writes into a field: one the field does not hold
HostWrite(m, field) ==
    CASE field = "startPosition" ->
            IF m.state.startPosition = [x |-> 0, y |-> 0]
            THEN [x |-> MaxX, y |-> MaxY] ELSE [x |-> 0, y |-> 0]
      [] field \in {"sourceElement", "lastHoveredElement"} -> "body"
      [] field \in {"sourcePosition", "sourceItem"} -> "tampered"
      [] field = "activePointerId" -> 3
      [] OTHER -> ~m.state.isDragging

\* `snapshot.field = value` in the host's code
AssignField(m, snapshot, field, value) ==
    IF snapshot.object = "state"
    THEN [m EXCEPT !.state = [@ EXCEPT ![field] = value]]
    ELSE m

\* const snapshot = manager.getState(); snapshot[field] = ...
OnGetState(field) ==
    AssignField(Machine, getState(Machine), field, HostWrite(Machine, field))

\* manager.isDragging() returns this.state.isDragging and does nothing else
OnIsDragging == [m |-> Machine, returned |-> Machine.state.isDragging]

\* `ev` keeps the field the host assigned to
GetState ==
    \E field \in StateFields :
        Apply(OnGetState(field), "getState", NoPointer, field)

\* `ev` keeps what isDragging() returned
IsDragging ==
    Apply(OnIsDragging.m, "isDragging", NoPointer,
          IF OnIsDragging.returned THEN "true" ELSE "false")

NextRead ==
    \/ PointerDown
    \/ PointerMove
    \/ PointerUp
    \/ PointerCancel
    \/ KeyDown
    \/ MouseOut
    \/ Frame
    \/ Destroy
    \/ GetState
    \/ IsDragging

SpecRead == InitCapture /\ [][NextRead]_vars

\* ------------------------------------------------ the preview helper alone
\* A host that drives a DragPreviewController by hand, in any order, with
\* either setting of centerOnCursor.  The engine stands by.
PreviewElements == InContainer \cup InBoard

InitPreview ==
    /\ config = Config(2, 2, TRUE, TRUE)
    /\ callbacks = AllCallbacks
    /\ state = EmptyState
    /\ rafId = NoRaf
    /\ lastPointerPos = NullPos
    /\ attached = attachListeners
    /\ dataDragging = {}
    /\ dataHovered = {}
    /\ capture = Null
    /\ frames = {}
    /\ calls = <<>>
    /\ fired = NoneFired
    /\ ev = [type |-> "construct", pointerId |-> NoPointer, detail |-> Null,
             before |-> "idle", prevented |-> FALSE,
             cleaned |-> FALSE, scheduled |-> FALSE, cancelled |-> FALSE,
             scrolled |-> <<>>, releaseThrew |-> FALSE]
    /\ peer = Instance(Board, {})
    /\ \E centerOnCursor \in BOOLEAN :
          preview = DragPreviewController(centerOnCursor, FALSE)

engine == <<config, callbacks, state, rafId, lastPointerPos, attached, dataDragging,
            dataHovered, capture, frames, calls, fired, ev, peer>>

StartFromElement ==
    \E element \in PreviewElements :
        /\ Cardinality(preview.clones) < MaxClones
        /\ preview' = startFromElement(preview, element)
        /\ UNCHANGED engine

MoveToPointer ==
    \E pos \in Points :
        /\ preview' = moveToPointer(preview, pos)
        /\ UNCHANGED engine

Stop ==
    /\ preview' = stop(preview)
    /\ UNCHANGED engine

DestroyPreview ==
    /\ preview' = destroyPreview(preview)
    /\ UNCHANGED engine

NextPreview ==
    \/ StartFromElement
    \/ MoveToPointer
    \/ Stop
    \/ DestroyPreview

SpecPreview == InitPreview /\ [][NextPreview]_vars

\* ------------------------------------------- a host that re-enters
\* The same page with a host whose onDrop or whose onDragEnd calls
\* manager.destroy(), as a component that unmounts when its drag is over
\* does.  The callback runs inside the handler, so destroy() finds the
\* fields as the handler has left them so far.  `reenters` names the
\* callback that calls destroy(); it is drawn with each event.  A handler
\* gives back the machine and whether it ended in an exception.
HostReentry == {"never", "onDrop", "onDragEnd"}

\* cleanup(), `depth` calls deep in nested destroy() calls.  onDragEnd is
\* called before the state is reset; a destroy() from inside it runs
\* cleanup again on the same fields.  When the call stack has no room for
\* one more call the engine throws a RangeError, which unwinds every
\* cleanup in progress before any of them resets the state.
RECURSIVE cleanupFor(_, _, _)
cleanupFor(m, reenters, depth) ==
    LET m1 == cancelFrame(removeHovered(removeDragging(releaseCapture(m)))) IN
    IF ~m1.state.isDragging
    THEN [threw |-> FALSE, m |-> resetState(m1)]
    ELSE
    LET m2 == Invoke(m1, "onDragEnd", Null, Null, Null, Null, NullPos) IN
    IF reenters # "onDragEnd"
    THEN [threw |-> FALSE, m |-> resetState(m2)]
    ELSE IF depth >= MaxStack
    THEN [threw |-> TRUE, m |-> m2]
    ELSE \* the host's destroy(): cleanup, then the listeners are removed
         LET inner == cleanupFor(m2, reenters, depth + 1) IN
         IF inner.threw
         THEN inner
         ELSE [threw |-> FALSE,
               m |-> resetState([inner.m EXCEPT !.attached = @ \ removeListeners])]

\* destroy() called by the host
destroyFor(m, reenters, depth) ==
    LET cleaned == cleanupFor(m, reenters, depth)
    IN  IF cleaned.threw
        THEN cleaned
        ELSE [threw |-> FALSE, m |-> [cleaned.m EXCEPT !.attached = @ \ removeListeners]]

handlePointerUpFor(m, e, reenters) ==
    IF ~isActivePointer(m, e) THEN [threw |-> FALSE, m |-> m]
    ELSE
    IF m.state.startPosition # NullPos /\ ~m.state.isDragging
    THEN LET currentPos == [x |-> e.x, y |-> e.y]
             m1 == IF /\ DistanceBelow(m.state.startPosition, currentPos, config.clickThreshold)
                      /\ Truthy(m.state.sourceElement)
                      /\ Truthy(m.state.sourcePosition)
                   THEN Invoke(m, "onClick", m.state.sourceElement,
                               m.state.sourcePosition, Null, Null, NullPos)
                   ELSE m
         IN  cleanupFor(m1, reenters, 0)
    ELSE
    IF ~m.state.isDragging \/ ~Truthy(m.state.sourcePosition) \/ ~Truthy(m.state.sourceItem)
    THEN cleanupFor(m, reenters, 0)
    ELSE
    LET droppableMatch == findElementByKinds(m, e.under, droppableKinds)
        droppableElement == droppableMatch.element
    IN
    IF droppableElement # Null
    THEN LET m1 == Invoke(m, "getItemPosition", droppableElement, droppableMatch.kind,
                          Null, Null, NullPos)
             targetPosition == e.hostPosition
         IN  IF Truthy(targetPosition)
             THEN LET m2 == Invoke(m1, "onDrop", Null, m1.state.sourcePosition,
                                   targetPosition, m1.state.sourceItem, NullPos)
                      \* the host's onDrop may call destroy() before it returns
                      m3 == IF reenters = "onDrop"
                            THEN destroyFor(m2, reenters, 1).m
                            ELSE m2
                  IN  cleanupFor(m3, reenters, 0)
             ELSE cleanupFor(m1, reenters, 0)
    ELSE cleanupFor(m, reenters, 0)

handleKeyDownFor(m, e, reenters) ==
    IF ~config.cancelOnEscape THEN m
    ELSE IF e.key # "Escape" THEN m
    ELSE IF m.state.startPosition = NullPos THEN m
    ELSE cleanupFor(m, reenters, 0).m

handleMouseOutFor(m, e, reenters) ==
    IF ~config.cancelOnPointerLeave THEN m
    ELSE IF m.state.startPosition = NullPos THEN m
    ELSE IF e.relatedTarget # Null THEN m
    ELSE cleanupFor(m, reenters, 0).m

\* The browser runs the listeners that are registered when their turn
\* comes: one that destroy() removed while the event was being dispatched
\* is not run, and an exception in a listener is reported and does not keep
\* the next listener from running.
DispatchPointerUpFor(m, e, below, reenters) ==
    LET m1 == IF below /\ <<"container", "pointerup">> \in m.attached
              THEN handlePointerUpFor(m, e, reenters).m ELSE m
    IN  IF <<"window", "pointerup">> \in m1.attached
        THEN handlePointerUpFor(m1, e, reenters).m ELSE m1

DispatchPointerCancelFor(m, below, reenters) ==
    LET m1 == IF below /\ <<"container", "pointercancel">> \in m.attached
              THEN cleanupFor(m, reenters, 0).m ELSE m
    IN  IF <<"window", "pointercancel">> \in m1.attached
        THEN cleanupFor(m1, reenters, 0).m ELSE m1

\* The host's way of re-entering is drawn only when a callback will run.  A
\* session is followed through one end that re-enters; once onDragEnd has
\* fired in it and it is still there, the host leaves the engine alone.
Reentries ==
    IF state.isDragging /\ fired["onDragEnd"] = 0 THEN HostReentry ELSE {"never"}

ReentrantPointerUp ==
    \E pt \in Points, pointerId \in EventPointerIds, reenters \in Reentries :
    LET asked == state.isDragging /\ DroppableAt(pt) # Null /\ attached # {} IN
    \E hostPosition \in OnlyIf(asked, HostPositions(DroppableAt(pt)), Null) :
        Apply(DispatchPointerUpFor(Machine,
                                   [pointerId |-> pointerId, x |-> pt.x, y |-> pt.y,
                                    under |-> elementFromPoint(pt),
                                    hostPosition |-> hostPosition],
                                   ThroughContainer(pt), reenters),
              "pointerup", pointerId, reenters)

ReentrantPointerCancel ==
    \E pointerId \in EventPointerIds, below \in BOOLEAN, reenters \in Reentries :
        Apply(DispatchPointerCancelFor(Machine, below, reenters),
              "pointercancel", pointerId, reenters)

ReentrantKeyDown ==
    \E key \in {"Escape", "Enter"}, reenters \in Reentries :
        Apply(IF <<"window", "keydown">> \in attached
              THEN handleKeyDownFor(Machine, [key |-> key], reenters) ELSE Machine,
              "keydown", NoPointer, key)

ReentrantMouseOut ==
    \E relatedTarget \in {Null, "body"}, reenters \in Reentries :
        Apply(IF <<"window", "mouseout">> \in attached
              THEN handleMouseOutFor(Machine, [relatedTarget |-> relatedTarget], reenters)
              ELSE Machine,
              "mouseout", NoPointer, relatedTarget)

ReentrantDestroy ==
    \E reenters \in Reentries :
        Apply(destroyFor(Machine, reenters, 0).m, "destroy", NoPointer, reenters)

NextReentrant ==
    \/ PointerDown
    \/ PointerMove
    \/ ReentrantPointerUp
    \/ ReentrantPointerCancel
    \/ ReentrantKeyDown
    \/ ReentrantMouseOut
    \/ Frame
    \/ ReentrantDestroy

SpecReentrant == InitCapture /\ [][NextReentrant]_vars

\* ------------------------------------------ a host without getItemData
\* Instances whose host left getItemData out: with every other callback,
\* without canDrag as well, and with the required getItemPosition alone.
\* No frame is ever requested from such an instance (frames stays empty),
\* so the browser has no frame to run.
HostsWithoutItemData ==
    {AllCallbacks \ {"getItemData"},
     AllCallbacks \ {"getItemData", "canDrag"},
     {"getItemPosition"}}

InitOptional ==
    /\ config \in Configs
    /\ callbacks \in HostsWithoutItemData
    /\ state = EmptyState
    /\ rafId = NoRaf
    /\ lastPointerPos = NullPos
    /\ attached = attachListeners
    /\ dataDragging = {}
    /\ dataHovered = {}
    /\ capture = Null
    /\ frames = {}
    /\ calls = <<>>
    /\ fired = NoneFired
    /\ ev = [type |-> "construct", pointerId |-> NoPointer, detail |-> Null,
             before |-> "idle", prevented |-> FALSE,
             cleaned |-> FALSE, scheduled |-> FALSE, cancelled |-> FALSE,
             scrolled |-> <<>>, releaseThrew |-> FALSE]
    /\ peer = Instance(Board, {})
    /\ preview = DragPreviewController(TRUE, FALSE)

NextOptional ==
    \/ PointerDown
    \/ PointerMove
    \/ PointerUp
    \/ PointerCancel
    \/ KeyDown
    \/ MouseOut
    \/ Destroy

SpecOptional == InitOptional /\ [][NextOptional]_vars

\* ------------------------------------------- frames that do run
\* The same page with the default options in a browser that runs every
\* frame it was asked for, unless the frame was cancelled first.  `ev`
\* keeps the coordinates of a pointermove.
Coordinates(pt) == ToString(pt.x) \o "," \o ToString(pt.y)

LivePointerMove ==
    \E pt \in Points, pointerId \in EventPointerIds :
        /\ ThroughContainer(pt)
        /\ Apply(OnPointerMove(pt, pointerId), "pointermove", pointerId, Coordinates(pt))

NextLive ==
    \/ PointerDown
    \/ LivePointerMove
    \/ PointerUp
    \/ PointerCancel
    \/ KeyDown
    \/ MouseOut
    \/ Frame
    \/ Destroy

\* The pending frame's handle is cleared: the browser ran the frame, whose
\* callback begins with rafId = null, or cleanup cancelled it.  A frame that
\* stays pending is not left pending for ever.
FrameRunsOrIsCancelled == rafId # NoRaf /\ rafId' = NoRaf

SpecLive == InitCapture /\ [][NextLive]_vars /\ WF_rafId(FrameRunsOrIsCancelled)

\* ------------------------------------------------------ two instances
\* A page with two instances, as in renderCrossContainerHarness: one on
\* `container` (the variables above) and one on `board` (`peer`), built
\* with the same configuration, kinds and callbacks.  Every event is
\* dispatched to the listeners of both; the hosts' accessors resolve every
\* element.  There is one pointer interaction on the page at a time: a
\* pointer goes down only when neither instance has a session.

\* the harness configuration: dragThreshold set, the other options default
\* (clickThreshold above dragThreshold, both cancellation toggles on)
HarnessConfig == Config(1, 2, TRUE, TRUE)

\* the second instance's machine record at the start of an event
Peer ==
    [peer EXCEPT !.calls = <<>>, !.prevented = FALSE, !.cleaned = FALSE,
                 !.scheduled = FALSE, !.cancelled = FALSE, !.scrolled = <<>>,
                 !.releaseThrows = FALSE, !.releaseThrew = FALSE]

\* The element a pointer event is targeted at: the element that holds the
\* pointer's capture, or else the element under the pointer.
Target(pt, pointerId) ==
    IF pointerId # NoPointer /\ capture # Null /\ state.activePointerId = pointerId
    THEN capture
    ELSE IF /\ pointerId # NoPointer /\ peer.capture # Null
            /\ peer.state.activePointerId = pointerId
         THEN peer.capture
         ELSE elementFromPoint(pt)

\* the pointerdown event as instance m sees it, with its host's answers
PickUpEvent(m, pt, pointerId, captureOk) ==
    LET element == findElementByKinds(m, Target(pt, pointerId), draggableKinds).element
    IN  [pointerId |-> pointerId, x |-> pt.x, y |-> pt.y,
         target |-> Target(pt, pointerId),
         hostPosition |-> IF element = Null THEN Null ELSE PositionOf(element),
         hostCanDrag |-> TRUE, hostItem |-> "item", captureOk |-> captureOk]

\* the pointerup event as instance m sees it, with its host's answer
ReleaseEvent(m, pt, pointerId) ==
    LET element == findElementByKinds(m, elementFromPoint(pt), droppableKinds).element
    IN  [pointerId |-> pointerId, x |-> pt.x, y |-> pt.y,
         under |-> elementFromPoint(pt),
         hostPosition |-> IF element = Null THEN Null ELSE PositionOf(element)]

BelowContainer(pt, pointerId) == Target(pt, pointerId) \in Within(Container)
BelowBoard(pt, pointerId) == Target(pt, pointerId) \in Within(Board)

InitTwo ==
    /\ config = HarnessConfig
    /\ callbacks = AllCallbacks
    /\ state = EmptyState
    /\ rafId = NoRaf
    /\ lastPointerPos = NullPos
    /\ attached = attachListeners
    /\ dataDragging = {}
    /\ dataHovered = {}
    /\ capture = Null
    /\ frames = {}
    /\ calls = <<>>
    /\ fired = NoneFired
    /\ ev = [type |-> "construct", pointerId |-> NoPointer, detail |-> Null,
             before |-> "idle", prevented |-> FALSE,
             cleaned |-> FALSE, scheduled |-> FALSE, cancelled |-> FALSE,
             scrolled |-> <<>>, releaseThrew |-> FALSE]
    /\ peer = Instance(Board, attachListeners)
    /\ preview = DragPreviewController(TRUE, FALSE)

TwoPointerDown ==
    \E pt \in Points, pointerId \in PointerIds, captureOk \in BOOLEAN :
        /\ state.startPosition = NullPos
        /\ peer.state.startPosition = NullPos
        /\ BelowContainer(pt, pointerId) \/ BelowBoard(pt, pointerId)
        /\ ApplyBoth(DispatchPointerDown(Machine,
                                         PickUpEvent(Machine, pt, pointerId, captureOk),
                                         BelowContainer(pt, pointerId)),
                     DispatchPointerDown(Peer,
                                         PickUpEvent(Peer, pt, pointerId, captureOk),
                                         BelowBoard(pt, pointerId)),
                     "pointerdown", pointerId, Null)

TwoPointerMove ==
    \E pt \in Points, pointerId \in PointerIds :
        LET e == [pointerId |-> pointerId, x |-> pt.x, y |-> pt.y]
        IN  /\ BelowContainer(pt, pointerId) \/ BelowBoard(pt, pointerId)
            /\ ApplyBoth(DispatchPointerMove(Machine, e, BelowContainer(pt, pointerId)),
                         DispatchPointerMove(Peer, e, BelowBoard(pt, pointerId)),
                         "pointermove", pointerId, Null)

TwoPointerUp ==
    \E pt \in Points, pointerId \in PointerIds :
        ApplyBoth(DispatchPointerUp(Machine, ReleaseEvent(Machine, pt, pointerId),
                                    BelowContainer(pt, pointerId)),
                  DispatchPointerUp(Peer, ReleaseEvent(Peer, pt, pointerId),
                                    BelowBoard(pt, pointerId)),
                  "pointerup", pointerId, Null)

TwoPointerCancel ==
    \E pt \in Points, pointerId \in PointerIds :
        ApplyBoth(DispatchPointerCancel(Machine, BelowContainer(pt, pointerId)),
                  DispatchPointerCancel(Peer, BelowBoard(pt, pointerId)),
                  "pointercancel", pointerId, Null)

TwoKeyDown ==
    \E key \in {"Escape", "Enter"} :
        ApplyBoth(DispatchKeyDown(Machine, [key |-> key]),
                  DispatchKeyDown(Peer, [key |-> key]),
                  "keydown", NoPointer, key)

TwoMouseOut ==
    \E relatedTarget \in {Null, "body"} :
        ApplyBoth(DispatchMouseOut(Machine, [relatedTarget |-> relatedTarget]),
                  DispatchMouseOut(Peer, [relatedTarget |-> relatedTarget]),
                  "mouseout", NoPointer, relatedTarget)

\* a pending frame of the first instance runs
TwoFrame ==
    \E h \in frames :
        ApplyBoth(OnFrame(h), Peer, "frame", NoPointer, Null)

\* a pending frame of the second instance runs
PeerFrame ==
    \E h \in peer.frames :
        ApplyBoth(Machine, frameCallback([Peer EXCEPT !.frames = @ \ {h}]),
                  "frame", NoPointer, "peer")

NextTwo ==
    \/ TwoPointerDown
    \/ TwoPointerMove
    \/ TwoPointerUp
    \/ TwoPointerCancel
    \/ TwoKeyDown
    \/ TwoMouseOut
    \/ TwoFrame
    \/ PeerFrame

SpecTwo == InitTwo /\ [][NextTwo]_vars

\* ------------------------------------------- the engine with its preview
\* The page of the test harness (renderHarness): one instance whose
\* onDragStart, onDragMove and onDragEnd drive a DragPreviewController with
\* the default options.
InitWired ==
    /\ config = HarnessConfig
    /\ callbacks = AllCallbacks
    /\ state = EmptyState
    /\ rafId = NoRaf
    /\ lastPointerPos = NullPos
    /\ attached = attachListeners
    /\ dataDragging = {}
    /\ dataHovered = {}
    /\ capture = Null
    /\ frames = {}
    /\ calls = <<>>
    /\ fired = NoneFired
    /\ ev = [type |-> "construct", pointerId |-> NoPointer, detail |-> Null,
             before |-> "idle", prevented |-> FALSE,
             cleaned |-> FALSE, scheduled |-> FALSE, cancelled |-> FALSE,
             scrolled |-> <<>>, releaseThrew |-> FALSE]
    /\ peer = Instance(Board, {})
    /\ preview = DragPreviewController(TRUE, TRUE)

SpecWired == InitWired /\ [][Next]_vars

\* ------------------------------------------- two instances, two pointers
\* The same page under multi-touch: pointer 1 is a finger that stays over
\* the first instance's elements, pointer 2 one that stays over the second
\* instance's side of the page (its lane and the strip below it).  Each
\* pointer goes down while it has no session, whatever the other one is
\* doing, so the two instances' sessions overlap in every order.
Finger(pointerId) ==
    {pt \in Points :
        elementFromPoint(pt) \in IF pointerId = 1
                                 THEN {"grip", "zone", "slot", "card"}
                                 ELSE {"lane", "chrome"}}

\* the pointer is not the one of a session in progress
PointerFree(pointerId) ==
    /\ state.activePointerId # pointerId
    /\ peer.state.activePointerId # pointerId

MultiPointerDown ==
    \E pointerId \in PointerIds, captureOk \in BOOLEAN :
    \E pt \in Finger(pointerId) :
        /\ PointerFree(pointerId)
        /\ ApplyBoth(DispatchPointerDown(Machine,
                                         PickUpEvent(Machine, pt, pointerId, captureOk),
                                         BelowContainer(pt, pointerId)),
                     DispatchPointerDown(Peer,
                                         PickUpEvent(Peer, pt, pointerId, captureOk),
                                         BelowBoard(pt, pointerId)),
                     "pointerdown", pointerId, Null)

MultiPointerMove ==
    \E pointerId \in PointerIds :
    \E pt \in Finger(pointerId) :
        LET e == [pointerId |-> pointerId, x |-> pt.x, y |-> pt.y]
        IN  ApplyBoth(DispatchPointerMove(Machine, e, BelowContainer(pt, pointerId)),
                      DispatchPointerMove(Peer, e, BelowBoard(pt, pointerId)),
                      "pointermove", pointerId, Null)

MultiPointerUp ==
    \E pointerId \in PointerIds :
    \E pt \in Finger(pointerId) :
        ApplyBoth(DispatchPointerUp(Machine, ReleaseEvent(Machine, pt, pointerId),
                                    BelowContainer(pt, pointerId)),
                  DispatchPointerUp(Peer, ReleaseEvent(Peer, pt, pointerId),
                                    BelowBoard(pt, pointerId)),
                  "pointerup", pointerId, Null)

MultiPointerCancel ==
    \E pointerId \in PointerIds :
    \E pt \in Finger(pointerId) :
        ApplyBoth(DispatchPointerCancel(Machine, BelowContainer(pt, pointerId)),
                  DispatchPointerCancel(Peer, BelowBoard(pt, pointerId)),
                  "pointercancel", pointerId, Null)

NextMulti ==
    \/ MultiPointerDown
    \/ MultiPointerMove
    \/ MultiPointerUp
    \/ MultiPointerCancel
    \/ TwoKeyDown
    \/ TwoMouseOut
    \/ TwoFrame
    \/ PeerFrame

SpecMulti == InitTwo /\ [][NextMulti]_vars

TypeOK ==
    /\ config \in Configs \cup {HarnessConfig}
    /\ peer.container = Board
    /\ peer.attached \subseteq attachListeners
    /\ peer.state.startPosition \in Points \cup {NullPos}
    /\ peer.state.sourceElement \in InBoard \cup {Null}
    /\ state.startPosition \in Points \cup {NullPos}
    /\ state.sourceElement \in Elements \cup {Null}
    /\ state.activePointerId \in EventPointerIds
    /\ state.isDragging \in BOOLEAN
    /\ state.lastHoveredElement \in Elements \cup {Null}
    /\ rafId \in 0..(MaxFrames + 1)
    /\ lastPointerPos \in Points \cup {NullPos}
    /\ dataDragging \subseteq Elements
    /\ dataHovered \subseteq Elements
    /\ frames \subseteq 1..(MaxFrames + 1)
    /\ attached \subseteq attachListeners

\* ===================================================================
\* Properties
\* ===================================================================
Fired(trace, cb) == \E i \in 1..Len(trace) : trace[i].cb = cb
Times(trace, cb) == Cardinality({i \in 1..Len(trace) : trace[i].cb = cb})

SessionExists == state.startPosition # NullPos

\* The last event was a keydown of a key other than Escape.  Such a keydown
\* leaves the machine exactly as it was (EveryMachineStateAfterOtherKey), and
\* it may follow any state, so every reachable combination of engine fields,
\* markers, capture, frames and listeners is also reached as the state after
\* one.  What a handler would do from the current machine state does not
\* depend on the last event; the properties below that run a handler over
\* every event it may receive do so in these states, which covers every
\* reachable machine state once instead of once per last event.
AfterOtherKey == ev.type = "keydown" /\ ev.detail = "Enter"

EveryMachineStateAfterOtherKey == OnKeyDown("Enter") = Machine
Armed == SessionExists /\ ~state.isDragging

\* the event's pointer is the session's pointer (or either is unidentified)
FromSessionPointer(pointerId) ==
    \/ state.activePointerId = NoPointer
    \/ pointerId = NoPointer
    \/ pointerId = state.activePointerId

\* squared distance from the pointer-down coordinates to pt
FromStartSq(pt) ==
    (pt.x - state.startPosition.x) * (pt.x - state.startPosition.x)
    + (pt.y - state.startPosition.y) * (pt.y - state.startPosition.y)

\* C1: in every session onDragEnd fires exactly once if onDragStart fired in
\* it, whichever way the session ends, and never in a session in which
\* onDragStart did not fire.  `fired` counts the callbacks of the current
\* session (of the last one, once it is over): while the session lasts
\* onDragEnd has not fired, and once it is over onDragEnd has fired as often
\* as onDragStart, which is at most once.
C1_EndIffStart ==
    /\ fired["onDragStart"] <= 1
    /\ fired["onDragEnd"] <= fired["onDragStart"]
    /\ SessionExists => fired["onDragEnd"] = 0
    /\ ~SessionExists => fired["onDragEnd"] = fired["onDragStart"]
    /\ Fired(calls, "onDragEnd") => ev.cleaned /\ ~SessionExists

\* a drag that destroy() ended, with its one onDragEnd
C1_Witness ==
    /\ ev.type = "destroy"
    /\ Times(calls, "onDragEnd") = 1
    /\ fired["onDragStart"] = 1
    /\ fired["onDragEnd"] = 1

\* C2: whenever onDrop fires, onDragEnd is the very next host function
\* called, in the same pointer-up pass; onDrop fires at most once per
\* session and only in a session in which onDragStart fired before.
C2_DropThenEnd ==
    /\ \A i \in 1..Len(calls) :
          calls[i].cb = "onDrop" =>
             /\ ev.type = "pointerup"
             /\ i < Len(calls)
             /\ calls[i + 1].cb = "onDragEnd"
    /\ fired["onDrop"] <= 1
    /\ fired["onDrop"] = 1 => fired["onDragStart"] = 1 /\ ~Fired(calls, "onDragStart")

C2_Witness ==
    /\ ev.type = "pointerup"
    /\ Fired(calls, "onDrop")
    /\ calls[Len(calls)].cb = "onDragEnd"

\* C3: onDragStart fires at most once per session and only while handling a
\* pointer-move at a distance of at least dragThreshold from the
\* pointer-down coordinates; in an armed session a move strictly below the
\* threshold changes nothing and fires nothing, and a move of the session's
\* pointer at or above it (exactly at it included) starts the drag.
C3_StartAtThreshold ==
    /\ fired["onDragStart"] <= 1
    /\ Fired(calls, "onDragStart") => ev.type = "pointermove" /\ Len(calls) = 1
    /\ AfterOtherKey => \A pt \in Points, pointerId \in EventPointerIds :
          LET m == OnPointerMove(pt, pointerId)
              reached == FromStartSq(pt) >= config.dragThreshold * config.dragThreshold
          IN  /\ Fired(m.calls, "onDragStart") => Armed /\ reached
              /\ Armed /\ ~reached => m = Machine
              /\ Armed /\ reached /\ FromSessionPointer(pointerId) =>
                    /\ Times(m.calls, "onDragStart") = 1
                    /\ m.state.isDragging
                    /\ m.calls[1].el = state.sourceElement
                    /\ m.calls[1].pos = state.sourcePosition
                    /\ m.calls[1].item = state.sourceItem

C3_Witness ==
    /\ ev.type = "pointermove"
    /\ Fired(calls, "onDragStart")
    /\ state.isDragging
    /\ fired["onDragStart"] = 1

\* C4: onClick fires exactly when a pointer-up of the session's pointer
\* arrives while the session is armed and was never promoted to dragging
\* and the release is strictly closer than clickThreshold to the
\* pointer-down coordinates; it receives the source element and the source
\* position; no session fires both onClick and onDragStart or onDragEnd.
C4_ClickBelowThreshold ==
    /\ Fired(calls, "onClick") => ev.type = "pointerup"
    /\ fired["onClick"] <= 1
    /\ fired["onClick"] = 1 => fired["onDragStart"] = 0 /\ fired["onDragEnd"] = 0
    /\ AfterOtherKey => \A pt \in Points, pointerId \in EventPointerIds :
          \* the release reaches both listeners, over a target that resolves
          LET m == OnPointerUp(pt, pointerId, PositionOf(DroppableAt(pt)), 2)
              near == FromStartSq(pt) < config.clickThreshold * config.clickThreshold
              click == Armed /\ FromSessionPointer(pointerId) /\ near
          IN  /\ Times(m.calls, "onClick") = IF click THEN 1 ELSE 0
              /\ click => /\ m.calls[1].cb = "onClick"
                          /\ m.calls[1].el = state.sourceElement
                          /\ m.calls[1].pos = state.sourcePosition

C4_Witness ==
    /\ ev.type = "pointerup"
    /\ Fired(calls, "onClick")
    /\ fired["onClick"] = 1
    /\ ~SessionExists

\* C5: a pointer-down that arrives while a session exists (armed or
\* dragging), from the same or from another pointer, changes no session
\* field, marker or frame, calls no accessor, fires no callback, does not
\* prevent the default and leaves the session in place.
C5_PointerDownIgnored ==
    (SessionExists /\ AfterOtherKey) =>
        \A pt \in Points, pointerId \in EventPointerIds, willing \in BOOLEAN :
            \* a host that refuses every pick-up, and one that allows them all
            LET hostPosition == IF willing THEN PositionOf(DraggableAt(pt)) ELSE Null
                hostItem == IF willing THEN "item" ELSE Null
            IN  OnPointerDown(pt, pointerId, hostPosition, willing, hostItem, willing)
                   = Machine

\* pointer B pressed during pointer A's drag, and the drag is still there
C5_Witness ==
    /\ ev.type = "pointerdown"
    /\ state.isDragging
    /\ state.activePointerId # NoPointer
    /\ ev.pointerId \notin {NoPointer, state.activePointerId}
    /\ calls = <<>>
    /\ ~ev.prevented

\* what an ignored event leaves behind: the session fields, the markers,
\* the pointer capture and the pending frame as they were, no host function
\* called
Untouched(m) ==
    /\ m.state = state
    /\ m.dataDragging = dataDragging
    /\ m.dataHovered = dataHovered
    /\ m.capture = capture
    /\ m.rafId = rafId
    /\ m.frames = frames
    /\ m.lastPointerPos = lastPointerPos
    /\ m.calls = <<>>

\* C6: once a session is armed for pointer A, every pointermove, pointerup
\* and pointercancel of another pointer B is ignored entirely: the session
\* fields, the markers and the pending frame stay as they are and no
\* callback fires.  handlePointerCancel takes no event, so the pointercancel
\* of B cannot be told from the one of A.
C6_ForeignPointerIgnored ==
    state.activePointerId # NoPointer =>
        \A B \in PointerIds \ {state.activePointerId} :
            /\ \A pt \in Points :
                  /\ Untouched(OnPointerMove(pt, B))
                  /\ Untouched(OnPointerUp(pt, B, PositionOf(DroppableAt(pt)), 2))
            /\ \A listeners \in {1, 2} : Untouched(OnPointerCancel(listeners))

\* C7: right after any cleanup, whichever handler ran it, no element carries
\* data-dragging or data-hovered: in the state an event that ran cleanup
\* leaves, and in the result of cleanup() run from any reachable state.
C7_MarkersClearedByCleanup ==
    /\ ev.cleaned => dataDragging = {} /\ dataHovered = {}
    /\ LET m == cleanup(Machine)
       IN  m.dataDragging = {} /\ m.dataHovered = {}
    /\ dataDragging \subseteq {state.sourceElement}
    /\ dataHovered \subseteq {state.lastHoveredElement}

\* a drop released over a hovered target: onDrop still saw both markers,
\* and the cleanup that followed removed them
C7_Witness ==
    /\ ev.type = "pointerup"
    /\ ev.cleaned
    /\ \E i \in 1..Len(calls) :
          /\ calls[i].cb = "onDrop"
          /\ calls[i].dataDragging # {}
          /\ calls[i].dataHovered # {}
    /\ dataDragging = {}
    /\ dataHovered = {}

\* isDragging() and the data-dragging markers agree
MarkerTracksDragging(dragging, sourceElement, marked) ==
    IF dragging THEN marked = {sourceElement} ELSE marked = {}

\* C8 (as stated): whenever the host can observe the engine, between events
\* and inside any function the engine calls, isDragging() being true implies
\* the source element carries data-dragging and isDragging() being false
\* implies no element carries it.
C8_MarkerAtEveryObservation ==
    /\ MarkerTracksDragging(isDragging, state.sourceElement, dataDragging)
    /\ \A i \in 1..Len(calls) :
          MarkerTracksDragging(calls[i].isDragging, calls[i].sourceElement,
                               calls[i].dataDragging)

\* C8 (amended): the agreement holds between events and inside every
\* function the engine calls except onDragEnd; inside onDragEnd isDragging()
\* is still true and the marker is already removed, because cleanup removes
\* the marker, then calls onDragEnd, then resets the session.
C8_MarkerExceptInDragEnd ==
    /\ MarkerTracksDragging(isDragging, state.sourceElement, dataDragging)
    /\ \A i \in 1..Len(calls) :
          IF calls[i].cb = "onDragEnd"
          THEN calls[i].isDragging /\ calls[i].dataDragging = {}
          ELSE MarkerTracksDragging(calls[i].isDragging, calls[i].sourceElement,
                                    calls[i].dataDragging)

\* onDragEnd ran, and from inside it the host saw a drag without a marker
C8_Witness ==
    \E i \in 1..Len(calls) :
        /\ calls[i].cb = "onDragEnd"
        /\ calls[i].isDragging
        /\ calls[i].sourceElement # Null
        /\ calls[i].dataDragging = {}

\* C9: at most one frame is pending at any time; a pointermove that arrives
\* while a frame is pending requests no frame and only replaces the stored
\* position (if it is the session's pointer; otherwise it changes nothing),
\* and the pending frame, when it runs, calls onDragMove exactly once with
\* the stored position, which is that of the last such move.
C9_OneFramePending ==
    /\ Cardinality(frames) =< 1
    /\ frames = IF rafId = NoRaf THEN {} ELSE {rafId}
    /\ frames # {} =>
          /\ isDragging
          /\ lastPointerPos # NullPos
          /\ AfterOtherKey => \A pt \in Points, pointerId \in EventPointerIds :
                LET m == OnPointerMove(pt, pointerId)
                IN  /\ ~m.scheduled
                    /\ m.lastPointerPos = IF FromSessionPointer(pointerId)
                                          THEN pt ELSE lastPointerPos
                    /\ Untouched([m EXCEPT !.lastPointerPos = lastPointerPos])
          /\ \A h \in frames :
                LET m == OnFrame(h)
                IN  /\ m.frames = {}
                    /\ m.rafId = NoRaf
                    /\ Len(m.calls) = 1
                    /\ m.calls[1].cb = "onDragMove"
                    /\ m.calls[1].pt = lastPointerPos

\* a move of the session's pointer arrived while a frame was pending: the
\* frame is still the only one and the event requested none
C9_Witness ==
    /\ ev.type = "pointermove"
    /\ FromSessionPointer(ev.pointerId)
    /\ isDragging
    /\ frames # {}
    /\ ~ev.scheduled
    /\ calls = <<>>

\* C10: cleanup cancels the pending frame in the same turn, so once a
\* session is over none of its frames is left to run: no frame is pending
\* without a session, onDragMove is only ever called from a frame of a
\* session that is dragging and whose onDragEnd has not fired, and the same
\* goes for the hover marker and for window.scrollBy.
C10_NoFrameAfterCleanup ==
    /\ ~SessionExists => frames = {} /\ rafId = NoRaf /\ dataHovered = {}
    /\ ev.cleaned => frames = {} /\ rafId = NoRaf
    /\ Fired(calls, "onDragMove") =>
          /\ ev.type = "frame"
          /\ isDragging
          /\ fired["onDragEnd"] = 0
    /\ ev.scrolled # <<>> =>
          /\ ev.type = "frame"
          /\ isDragging
          /\ fired["onDragEnd"] = 0
    /\ \A h \in frames :
          LET m == OnFrame(h)
          IN  m.state.isDragging /\ m.fired["onDragEnd"] = 0

\* a session ended while its frame was pending: the frame was cancelled
\* before onDragEnd and nothing is left to run
C10_Witness ==
    /\ ev.cleaned
    /\ ev.cancelled
    /\ fired["onDragEnd"] = 1
    /\ Fired(calls, "onDragEnd")
    /\ ~SessionExists
    /\ frames = {}

\* the lifecycle callbacks among the calls of a trace, in order
LifecycleCalls(trace) == SelectSeq(trace, LAMBDA c : c.cb \in Lifecycle)

C12_PickUpAbortsSilently ==
    (~SessionExists /\ attached = attachListeners /\ AfterOtherKey) =>
        \A pt \in Points, pointerId \in {NoPointer, 1} :
        \A hostPosition \in HostPositions(DraggableAt(pt)) :
        \A hostCanDrag \in OnlyIf(Truthy(hostPosition), BOOLEAN, FALSE) :
        \A hostItem \in OnlyIf(hostCanDrag, HostItems, Null) :
            LET m == OnPointerDown(pt, pointerId, hostPosition, hostCanDrag,
                                   hostItem, TRUE)
                passes == /\ DraggableAt(pt) # Null
                          /\ Truthy(hostPosition)
                          /\ ~datasetEmpty(DraggableAt(pt))
                          /\ hostCanDrag
                          /\ Truthy(hostItem)
            IN  /\ m.prevented <=> passes
                /\ ~passes =>
                      /\ m.state = state
                      /\ m.state = EmptyState
                      /\ m.dataDragging = dataDragging
                      /\ m.dataHovered = dataHovered
                      /\ m.capture = capture
                      /\ m.frames = frames
                      /\ LifecycleCalls(m.calls) = <<>>

\* a pointerdown on a draggable the host refused through canDrag: the
\* engine is still idle and the default was not prevented
C12_Witness ==
    /\ ev.type = "pointerdown"
    /\ Len(calls) = 2
    /\ calls[2].cb = "canDrag"
    /\ ~ev.prevented
    /\ state = EmptyState
    /\ capture = Null

\* C13: a pointerdown that passes every pick-up check arms the session:
\* start coordinates, source element, source position, source item and
\* pointer id are those of the event, isDragging() is false, no element is
\* marked, and no lifecycle callback has fired; so it is in every armed
\* state.
C13_ArmedByPointerDown ==
    /\ Armed =>
          /\ fired = NoneFired
          /\ dataDragging = {}
          /\ dataHovered = {}
          /\ state.lastHoveredElement = Null
          /\ frames = {}
    /\ (~SessionExists /\ attached = attachListeners /\ AfterOtherKey) =>
          \A pt \in Points, pointerId \in EventPointerIds, captureOk \in BOOLEAN :
             DraggableAt(pt) # Null /\ ~datasetEmpty(DraggableAt(pt)) =>
                LET m == OnPointerDown(pt, pointerId, PositionOf(DraggableAt(pt)),
                                       TRUE, "item", captureOk)
                IN  /\ m.state = [EmptyState EXCEPT
                                    !.startPosition = pt,
                                    !.sourceElement = DraggableAt(pt),
                                    !.sourcePosition = PositionOf(DraggableAt(pt)),
                                    !.sourceItem = "item",
                                    !.activePointerId = pointerId]
                    /\ ~m.state.isDragging
                    /\ m.dataDragging = {}
                    /\ m.dataHovered = {}
                    /\ LifecycleCalls(m.calls) = <<>>
                    /\ m.fired = NoneFired

\* a session just armed on the card by an identified pointer, the three
\* accessors asked and nothing else called
C13_Witness ==
    /\ ev.type = "pointerdown"
    /\ ev.prevented
    /\ Armed
    /\ state.activePointerId = ev.pointerId
    /\ state.activePointerId # NoPointer
    /\ state.sourceElement = "card"
    /\ Len(calls) = 3
    /\ fired = NoneFired

\* C14: a pointerup of the session's pointer (or of an unidentified one)
\* that arrives while a session exists, armed or dragging, leaves every
\* session field empty, whether or not onClick or onDrop fired; released
\* while armed at clickThreshold or more from the start, it calls nothing.
C14_PointerUpResets ==
    /\ (ev.type = "pointerup" /\ FromSessionPointer(ev.pointerId)) =>
          state = EmptyState /\ lastPointerPos = NullPos
    /\ (SessionExists /\ AfterOtherKey) =>
          \A pt \in Points, pointerId \in {state.activePointerId, NoPointer} :
          \A hostPosition \in {Null, PositionOf(DroppableAt(pt))} :
             LET m == OnPointerUp(pt, pointerId, hostPosition,
                                  IF ThroughContainer(pt) THEN 2 ELSE 1)
             IN  /\ m.state = EmptyState
                 /\ m.lastPointerPos = NullPos
                 /\ m.rafId = NoRaf
                 /\ m.cleaned
                 /\ (/\ Armed
                     /\ FromStartSq(pt) >= config.clickThreshold * config.clickThreshold)
                    => m.calls = <<>>

\* a session was armed and the pointer released: no host function was
\* called (so the release was not a click) and the engine is idle
C14_Witness ==
    /\ ev.type = "pointerup"
    /\ ev.before = "armed"
    /\ calls = <<>>
    /\ state = EmptyState
    /\ ~SessionExists

\* C15: with cancelOnEscape on and a session that is dragging, an Escape
\* keydown calls onDragEnd exactly once (and nothing else), removes
\* data-dragging and resets the session; a second Escape keydown after it,
\* like any Escape keydown with no session, calls nothing and changes nothing.
C15_EscapeCancelsOnce ==
    /\ (config.cancelOnEscape /\ isDragging) =>
          LET m == OnKeyDown("Escape")
              again == handleKeyDown([m EXCEPT !.calls = <<>>], [key |-> "Escape"])
          IN  /\ Len(m.calls) = 1
              /\ m.calls[1].cb = "onDragEnd"
              /\ m.dataDragging = {}
              /\ m.state = EmptyState
              /\ m.fired["onDragEnd"] = 1
              /\ again = [m EXCEPT !.calls = <<>>]
    /\ ~SessionExists => Untouched(OnKeyDown("Escape"))

\* Escape pressed during a drag: onDragEnd was called and the engine is idle
C15_Witness ==
    /\ ev.type = "keydown"
    /\ ev.detail = "Escape"
    /\ ev.before = "dragging"
    /\ config.cancelOnEscape
    /\ Len(calls) = 1
    /\ calls[1].cb = "onDragEnd"
    /\ state = EmptyState
    /\ dataDragging = {}

\* C16: while a session is dragging, a pointercancel, an Escape keydown
\* (cancelOnEscape on) and a window mouseout with no related target
\* (cancelOnPointerLeave on) each run cleanup; while the session is only
\* armed, an Escape keydown and a window-leave leave it in place, so that a
\* later pointerup within clickThreshold still calls onClick.
C16_CancelOnlyWhileDragging ==
    /\ isDragging =>
          /\ \A listeners \in {1, 2} : OnPointerCancel(listeners).cleaned
          /\ config.cancelOnEscape => OnKeyDown("Escape").cleaned
          /\ config.cancelOnPointerLeave => OnMouseOut(Null).cleaned
    /\ Armed =>
          /\ Untouched(OnKeyDown("Escape"))
          /\ Untouched(OnMouseOut(Null))
    /\ (ev.type \in {"keydown", "mouseout"} /\ ev.before = "armed") => Armed

\* C17: with cancelOnEscape off an Escape keydown changes nothing and calls
\* nothing (a dragging session stays dragging); with cancelOnPointerLeave
\* off a window mouseout changes nothing and calls nothing; a keydown of any
\* other key changes nothing and calls nothing under any configuration.
C17_TogglesGate ==
    /\ ~config.cancelOnEscape => Untouched(OnKeyDown("Escape"))
    /\ ~config.cancelOnPointerLeave =>
          \A relatedTarget \in {Null, "body"} : Untouched(OnMouseOut(relatedTarget))
    /\ Untouched(OnKeyDown("Enter"))
    /\ EveryMachineStateAfterOtherKey
    /\ (/\ ev.type = "keydown"
        /\ ~config.cancelOnEscape \/ ev.detail # "Escape") =>
          Phase = ev.before /\ calls = <<>> /\ ~ev.cleaned
    /\ (ev.type = "mouseout" /\ ~config.cancelOnPointerLeave) =>
          Phase = ev.before /\ calls = <<>> /\ ~ev.cleaned

\* Escape pressed during a drag with cancelOnEscape off: still dragging
C17_Witness ==
    /\ ev.type = "keydown"
    /\ ev.detail = "Escape"
    /\ ~config.cancelOnEscape
    /\ ev.before = "dragging"
    /\ isDragging
    /\ dataDragging = {state.sourceElement}
    /\ calls = <<>>

\* C18: with cancelOnPointerLeave on and a session that is dragging, a
\* window mouseout cancels the drag (onDragEnd once, session reset) iff its
\* relatedTarget is null; one whose relatedTarget is an element changes
\* nothing.
C18_LeaveCancelsIffNoTarget ==
    /\ (config.cancelOnPointerLeave /\ isDragging) =>
          /\ LET m == OnMouseOut(Null)
             IN  /\ Len(m.calls) = 1
                 /\ m.calls[1].cb = "onDragEnd"
                 /\ m.state = EmptyState
                 /\ m.dataDragging = {}
                 /\ m.frames = {}
          /\ Untouched(OnMouseOut("body"))
    /\ (ev.type = "mouseout" /\ ev.before = "dragging") =>
          (~isDragging <=> (config.cancelOnPointerLeave /\ ev.detail = Null))

\* the pointer left the window during a drag: onDragEnd was called and the
\* engine is idle
C18_Witness ==
    /\ ev.type = "mouseout"
    /\ ev.detail = Null
    /\ ev.before = "dragging"
    /\ config.cancelOnPointerLeave
    /\ Len(calls) = 1
    /\ calls[1].cb = "onDragEnd"
    /\ state = EmptyState

\* C19: destroy() runs cleanup (onDragEnd exactly once if a drag is active,
\* the pending frame cancelled) and removes every listener attached at
\* construction, from the container and from the window; after it no
\* pointer, keyboard or mouse event changes the state, sets a marker or
\* calls a host function.
C19_DestroyDetaches ==
    /\ LET m == OnDestroy
       IN  /\ m.attached = {}
           /\ m.state = EmptyState
           /\ m.frames = {}
           /\ m.rafId = NoRaf
           /\ m.dataDragging = {}
           /\ m.dataHovered = {}
           /\ Len(m.calls) = IF isDragging THEN 1 ELSE 0
           /\ isDragging => m.calls[1].cb = "onDragEnd"
    /\ attached # attachListeners =>
          /\ attached = {}
          /\ state = EmptyState
          /\ dataDragging = {}
          /\ dataHovered = {}
          /\ frames = {}
          /\ ev.type # "destroy" => calls = <<>>
          /\ AfterOtherKey => \A pt \in Points, pointerId \in EventPointerIds :
                /\ Untouched(OnPointerDown(pt, pointerId, PositionOf(DraggableAt(pt)),
                                           TRUE, "item", TRUE))
                /\ Untouched(OnPointerMove(pt, pointerId))
                /\ Untouched(OnPointerUp(pt, pointerId, PositionOf(DroppableAt(pt)), 2))
          /\ \A listeners \in {1, 2} : Untouched(OnPointerCancel(listeners))
          /\ \A key \in {"Escape", "Enter"} : Untouched(OnKeyDown(key))
          /\ \A relatedTarget \in {Null, "body"} : Untouched(OnMouseOut(relatedTarget))

\* destroy() called during a drag with a frame pending: the frame was
\* cancelled, onDragEnd called once, and no listener is left
C19_Witness ==
    /\ ev.type = "destroy"
    /\ ev.before = "dragging"
    /\ ev.cancelled
    /\ Len(calls) = 1
    /\ calls[1].cb = "onDragEnd"
    /\ attached = {}
    /\ state = EmptyState

\* C20: two instances on separate containers.  A drag that started in the
\* first instance's container and is released over a droppable element of
\* the second instance's container calls onDrop exactly once, on the first
\* instance, with the target position resolved from that element, and then
\* onDragEnd; the second instance, which hears the same events through its
\* own listeners, stays idle and calls nothing, at the release and all
\* through the drag.
C20_DropAcrossInstances ==
    /\ SessionExists =>
          /\ peer.state = EmptyState
          /\ peer.calls = <<>>
          /\ peer.dataDragging = {}
          /\ peer.dataHovered = {}
          /\ peer.frames = {}
    /\ isDragging =>
          \A pt \in Points :
             (/\ elementFromPoint(pt) \in Within(Board)
              /\ datasetKind(elementFromPoint(pt)) \in droppableKinds) =>
                LET pointerId == state.activePointerId
                    m == DispatchPointerUp(Machine, ReleaseEvent(Machine, pt, pointerId),
                                           BelowContainer(pt, pointerId))
                    other == DispatchPointerUp(Peer, ReleaseEvent(Peer, pt, pointerId),
                                               BelowBoard(pt, pointerId))
                    told == LifecycleCalls(m.calls)
                IN  /\ Len(told) = 2
                    /\ told[1].cb = "onDrop"
                    /\ told[1].pos = state.sourcePosition
                    /\ told[1].target = PositionOf(elementFromPoint(pt))
                    /\ told[1].item = state.sourceItem
                    /\ told[2].cb = "onDragEnd"
                    /\ m.state = EmptyState
                    /\ other.state = EmptyState
                    /\ other.calls = <<>>
                    /\ other.dataDragging = {}
                    /\ other.dataHovered = {}
                    /\ other.frames = {}

\* a drag from the card of the first container was dropped on the lane of
\* the second: onDrop got the lane's position, the second instance, with
\* its listeners attached, called nothing
C20_Witness ==
    /\ ev.type = "pointerup"
    /\ ev.before = "dragging"
    /\ Len(calls) = 3
    /\ calls[1].cb = "getItemPosition"
    /\ calls[1].el = "lane"
    /\ calls[2].cb = "onDrop"
    /\ calls[2].pos = PositionOf("card")
    /\ calls[2].target = PositionOf("lane")
    /\ calls[3].cb = "onDragEnd"
    /\ peer.attached = attachListeners
    /\ peer.state = EmptyState
    /\ peer.calls = <<>>

\* what an event that is not an instance's business leaves of it: the
\* session fields and the markers as they were, no host function called
Unheard(before, after) ==
    /\ after.state = before.state
    /\ after.dataDragging = before.dataDragging
    /\ after.dataHovered = before.dataHovered
    /\ after.rafId = before.rafId
    /\ after.calls = <<>>

\* the pointermove, pointerup and pointercancel of `pointerId` at pt leave
\* instance m as it is (`below`: the event bubbles through m's container)
DeafTo(m, pt, pointerId, below) ==
    /\ Unheard(m, DispatchPointerMove(m, [pointerId |-> pointerId, x |-> pt.x, y |-> pt.y],
                                      below))
    /\ Unheard(m, DispatchPointerUp(m, ReleaseEvent(m, pt, pointerId), below))
    /\ Unheard(m, DispatchPointerCancel(m, below))

\* C21: two instances with sessions of different pointers.  A pointermove,
\* pointerup or pointercancel of the pointer of one instance's session
\* changes no session field and no marker of the other instance and calls
\* none of its host functions.  handlePointerCancel takes no event, so the
\* other instance's window listener cannot tell whose pointer was cancelled.
C21_NoCrossTalk ==
    (/\ state.activePointerId # NoPointer
     /\ peer.state.activePointerId # NoPointer
     /\ state.activePointerId # peer.state.activePointerId) =>
        /\ \A pt \in Finger(state.activePointerId) :
              DeafTo(Peer, pt, state.activePointerId,
                     BelowBoard(pt, state.activePointerId))
        /\ \A pt \in Finger(peer.state.activePointerId) :
              DeafTo(Machine, pt, peer.state.activePointerId,
                     BelowContainer(pt, peer.state.activePointerId))

\* C22: onDragEnd receives the drop payload (source position, target
\* position, source item) when the drag ends with a drop, that is when
\* onDrop was called just before it, and null when the drag was cancelled or
\* released over no target.  cleanup calls onDragEnd with no argument, so
\* the call carries no position and no item whatever ended the drag.
C22_DragEndPayload ==
    \A i \in 1..Len(calls) :
        calls[i].cb = "onDragEnd" =>
            IF i > 1 /\ calls[i - 1].cb = "onDrop"
            THEN /\ calls[i].pos = calls[i - 1].pos
                 /\ calls[i].target = calls[i - 1].target
                 /\ calls[i].item = calls[i - 1].item
            ELSE /\ calls[i].pos = Null
                 /\ calls[i].target = Null
                 /\ calls[i].item = Null

\* C23: onClick is only ever the answer to a pointerup that lies strictly
\* within dragThreshold and strictly within clickThreshold of the
\* pointer-down coordinates: under every configuration, a release at
\* dragThreshold or more from the start calls no onClick.  handlePointerUp
\* compares the release with clickThreshold only, so with clickThreshold
\* above dragThreshold a release the engine saw no move before is a click.
C23_NoClickAtDragDistance ==
    Armed =>
        \A pt \in Points, pointerId \in EventPointerIds, listeners \in {1, 2} :
            LET m == OnPointerUp(pt, pointerId, Null, listeners)
            IN  Fired(m.calls, "onClick") =>
                   /\ FromStartSq(pt) < config.dragThreshold * config.dragThreshold
                   /\ FromStartSq(pt) < config.clickThreshold * config.clickThreshold

\* C24: the constructor throws for a selector that matches no element and
\* for a ref wrapper whose current is null, and then no listener is
\* attached, on the container or on the window; for the element itself, a
\* selector that matches and a ref that holds the element it returns an
\* instance on that element with the eight listeners attached, an empty
\* session and isDragging() false.  Without listeners nothing ever starts.
C24_ConstructionFailsFast ==
    /\ \A containerRef \in ContainerRefs :
          LET made == constructor(containerRef)
          IN  IF containerRef \in {"#missing", "emptyRef"}
              THEN made.threw /\ made.instance.attached = {}
              ELSE /\ ~made.threw
                   /\ made.instance.container = Container
                   /\ made.instance.attached = attachListeners
                   /\ made.instance.state = EmptyState
                   /\ ~made.instance.state.isDragging
                   /\ made.instance.rafId = NoRaf
    /\ ev.type = "throw" =>
          /\ ev.detail \in {"#missing", "emptyRef"}
          /\ attached = {}
    /\ ev.type = "construct" =>
          /\ ev.detail \in {"#container", "ref", "element"}
          /\ attached = attachListeners
          /\ state = EmptyState
          /\ ~isDragging
          /\ dataDragging = {} /\ dataHovered = {} /\ frames = {}
    /\ attached = {} =>
          /\ state = EmptyState
          /\ dataDragging = {} /\ dataHovered = {} /\ frames = {}
          /\ ev.type # "destroy" => calls = <<>>

\* the constructor was given a ref wrapper holding no element: it threw and
\* the page has no listener of the engine
C24_Witness ==
    /\ ev.type = "throw"
    /\ ev.detail = "emptyRef"
    /\ attached = {}
    /\ state = EmptyState

\* what one axis may be scrolled by: toward the edge the coordinate is
\* within the threshold of (the distance to it is less than the threshold),
\* toward one of the two if the window is so small that it is within the
\* threshold of both, and not at all otherwise
AxisToward(coordinate, extent, scrollThreshold, scrollSpeed) ==
    LET nearStart == coordinate < scrollThreshold
        nearEnd == extent - coordinate < scrollThreshold
    IN  IF nearStart /\ nearEnd THEN {-scrollSpeed, scrollSpeed}
        ELSE IF nearStart THEN {-scrollSpeed}
        ELSE IF nearEnd THEN {scrollSpeed}
        ELSE {0}

\* window sizes, options and pointer positions the scroll is worked out for
ScrollExtents == 1..MaxScroll
ScrollOptions == {1, 2}
ScrollPoints == [x : 0..MaxScroll, y : 0..MaxScroll]

\* C25: a processed frame scrolls each axis by exactly scrollSpeed toward
\* the viewport edge the stored pointer position is within scrollThreshold
\* of, negative for left and top, positive for right and bottom, each axis
\* on its own (a corner scrolls both); window.scrollBy is called once with
\* the two amounts, and not at all when both are zero.  So it is for the
\* frame that just ran, and for every position, window size, threshold and
\* speed the frame could have run with.
C25_ScrollTowardEdge ==
    ev.type = "frame" =>
        /\ calls # <<>> =>
              LET pos == calls[Len(calls)].pt
              IN  /\ Len(ev.scrolled) =< 1
                  /\ \A i \in 1..Len(ev.scrolled) :
                        /\ ev.scrolled[i] # <<0, 0>>
                        /\ ev.scrolled[i][1] \in
                              AxisToward(pos.x, ViewportWidth, ScrollThreshold, ScrollSpeed)
                        /\ ev.scrolled[i][2] \in
                              AxisToward(pos.y, ViewportHeight, ScrollThreshold, ScrollSpeed)
                  /\ ev.scrolled = <<>> =>
                        /\ 0 \in AxisToward(pos.x, ViewportWidth, ScrollThreshold, ScrollSpeed)
                        /\ 0 \in AxisToward(pos.y, ViewportHeight, ScrollThreshold, ScrollSpeed)
        /\ calls = <<>> => ev.scrolled = <<>>
        /\ \A pos \in ScrollPoints :
           \A innerWidth \in ScrollExtents, innerHeight \in ScrollExtents :
           \A scrollThreshold \in ScrollOptions, scrollSpeed \in ScrollOptions :
              LET made == autoScroll(pos, innerWidth, innerHeight,
                                     scrollThreshold, scrollSpeed)
                  towardX == AxisToward(pos.x, innerWidth, scrollThreshold, scrollSpeed)
                  towardY == AxisToward(pos.y, innerHeight, scrollThreshold, scrollSpeed)
              IN  IF towardX = {0} /\ towardY = {0}
                  THEN made = <<>>
                  ELSE /\ Len(made) = 1
                       /\ made[1][1] \in towardX
                       /\ made[1][2] \in towardY

\* a frame ran with the pointer in the bottom right corner of the viewport:
\* the window was scrolled once, diagonally, before onDragMove
C25_Witness ==
    /\ ev.type = "frame"
    /\ Len(calls) = 1
    /\ calls[1].cb = "onDragMove"
    /\ calls[1].pt = [x |-> ViewportWidth, y |-> ViewportHeight]
    /\ ev.scrolled = << <<ScrollSpeed, ScrollSpeed>> >>

\* the page's droppables as the layout has them: the nearest ancestor (the
\* element itself included) below the container that has a droppable kind
NearestDroppable(pt) ==
    CASE elementFromPoint(pt) \in {"grip", "card"} -> "card"
      [] elementFromPoint(pt) = "slot" -> "slot"
      [] elementFromPoint(pt) = "zone" -> "zone"
      [] elementFromPoint(pt) = "lane" -> "lane"
      [] OTHER -> Null

\* the elements that carry data-hovered when `hovered` is the hovered one
HoverMarks(hovered) == IF hovered = Null THEN {} ELSE {hovered}

\* C26: at most one element carries data-hovered and it is the session's
\* lastHoveredElement; a frame that is processed leaves as lastHoveredElement
\* the nearest droppable ancestor of the element under the stored pointer
\* position, or none, with the marker moved from the element hovered before
\* to it, and passes that element, or none, to onDragMove.
C26_OneHovered ==
    /\ dataHovered = HoverMarks(state.lastHoveredElement)
    /\ Cardinality(dataHovered) =< 1
    /\ (ev.type = "frame" /\ calls # <<>>) =>
          /\ Len(calls) = 1
          /\ calls[1].cb = "onDragMove"
          /\ calls[1].el = NearestDroppable(calls[1].pt)
          /\ calls[1].dataHovered = HoverMarks(calls[1].el)
          /\ state.lastHoveredElement = calls[1].el
    /\ \A h \in frames :
          LET m == OnFrame(h)
              hovered == NearestDroppable(lastPointerPos)
          IN  /\ m.state.lastHoveredElement = hovered
              /\ m.dataHovered = HoverMarks(hovered)
              /\ m.calls[1].el = hovered
              /\ m.calls[1].pt = lastPointerPos

\* a frame ran with the pointer over the grip inside the card: the card is
\* hovered, it alone is marked, and onDragMove got the card
C26_Witness ==
    /\ ev.type = "frame"
    /\ Len(calls) = 1
    /\ elementFromPoint(calls[1].pt) = "grip"
    /\ calls[1].el = "card"
    /\ state.lastHoveredElement = "card"
    /\ dataHovered = {"card"}

\* C27: the element being dragged is a drop target like any other.  When it
\* has a droppable kind, a frame with the pointer over it marks it
\* data-hovered while it keeps data-dragging and passes it to onDragMove,
\* and a release over it asks getItemPosition for the source element itself
\* and calls onDrop with that position as the target, then onDragEnd.
C27_SourceIsDroppable ==
    /\ isDragging =>
          \A h \in frames :
             NearestDroppable(lastPointerPos) = state.sourceElement =>
                LET m == OnFrame(h)
                IN  /\ m.state.lastHoveredElement = state.sourceElement
                    /\ m.dataHovered = {state.sourceElement}
                    /\ m.dataDragging = {state.sourceElement}
                    /\ m.calls[1].cb = "onDragMove"
                    /\ m.calls[1].el = state.sourceElement
    /\ (isDragging /\ AfterOtherKey) =>
          \A pt \in Points :
             NearestDroppable(pt) = state.sourceElement =>
                LET m == OnPointerUp(pt, state.activePointerId,
                                     PositionOf(state.sourceElement),
                                     IF ThroughContainer(pt) THEN 2 ELSE 1)
                IN  /\ Len(m.calls) = 3
                    /\ m.calls[1].cb = "getItemPosition"
                    /\ m.calls[1].el = state.sourceElement
                    /\ m.calls[1].pos = datasetKind(state.sourceElement)
                    /\ m.calls[2].cb = "onDrop"
                    /\ m.calls[2].pos = state.sourcePosition
                    /\ m.calls[2].target = PositionOf(state.sourceElement)
                    /\ m.calls[2].item = state.sourceItem
                    /\ m.calls[3].cb = "onDragEnd"
    /\ \A i \in 1..Len(calls) :
          (calls[i].cb = "onDragMove" /\ calls[i].el = calls[i].sourceElement) =>
             /\ calls[i].dataHovered = {calls[i].el}
             /\ calls[i].dataDragging = {calls[i].el}

\* the card was dragged, hovered over itself and released over itself:
\* onDrop was called with the card's position as source and as target, and
\* at that moment the card carried both markers
C27_Witness ==
    /\ ev.type = "pointerup"
    /\ Len(calls) = 3
    /\ calls[1].cb = "getItemPosition"
    /\ calls[1].el = "card"
    /\ calls[2].cb = "onDrop"
    /\ calls[2].sourceElement = "card"
    /\ calls[2].pos = PositionOf("card")
    /\ calls[2].target = PositionOf("card")
    /\ calls[2].dataDragging = {"card"}
    /\ calls[2].dataHovered = {"card"}

\* C28: the engine takes a host value for empty only when it is null.  A
\* position or an item that is falsy but not null (0, '', false) arms the
\* session at pointerdown like any other and is stored as it is, and a
\* target position that is falsy but not null gets its onDrop.  The code
\* tests the values with `!`, so a falsy one ends the pick-up or the drop.
C28_FalsyValuesPass ==
    /\ (~SessionExists /\ attached = attachListeners) =>
          \A pt \in Points :
          \A answer \in {<<Falsy, "item">>, <<PositionOf(DraggableAt(pt)), Falsy>>} :
             (DraggableAt(pt) # Null /\ ~datasetEmpty(DraggableAt(pt))) =>
                LET m == OnPointerDown(pt, 1, answer[1], TRUE, answer[2], TRUE)
                IN  /\ m.state.startPosition = pt
                    /\ m.state.sourcePosition = answer[1]
                    /\ m.state.sourceItem = answer[2]
                    /\ m.prevented
    /\ isDragging =>
          \A pt \in Points :
             DroppableAt(pt) # Null =>
                LET m == OnPointerUp(pt, state.activePointerId, Falsy,
                                     IF ThroughContainer(pt) THEN 2 ELSE 1)
                IN  \E i \in 1..Len(m.calls) :
                       /\ m.calls[i].cb = "onDrop"
                       /\ m.calls[i].target = Falsy

C30_PointerUpResolvesOnce ==
    /\ ev.type = "pointerup" =>
          /\ Times(calls, "onClick") =< 1
          /\ Times(calls, "onDrop") =< 1
          /\ Times(calls, "onDragEnd") =< 1
          /\ Times(calls, "getItemPosition") =< 1
          /\ fired["onClick"] =< 1 /\ fired["onDrop"] =< 1 /\ fired["onDragEnd"] =< 1
          /\ (ev.before # "idle" /\ FromSessionPointer(ev.pointerId)) =>
                /\ ev.cleaned
                /\ state = EmptyState
                /\ ev.before = "dragging" => Times(calls, "onDragEnd") = 1
    /\ (SessionExists /\ AfterOtherKey) =>
          \A pt \in Points :
          \A hostPosition \in {Null, PositionOf(DroppableAt(pt))} :
             LET window == OnPointerUp(pt, state.activePointerId, hostPosition, 1)
                 both == OnPointerUp(pt, state.activePointerId, hostPosition, 2)
                 near == FromStartSq(pt) < config.clickThreshold * config.clickThreshold
                 drop == DroppableAt(pt) # Null /\ hostPosition # Null
             IN  /\ window = both
                 /\ window.state = EmptyState
                 /\ window.cleaned
                 /\ Times(window.calls, "onClick") = IF Armed /\ near THEN 1 ELSE 0
                 /\ Times(window.calls, "onDrop") = IF isDragging /\ drop THEN 1 ELSE 0
                 /\ Times(window.calls, "onDragEnd") = IF isDragging THEN 1 ELSE 0

\* a drag released over the lane, outside the container and without pointer
\* capture, so that only the window listener heard the pointerup: onDrop and
\* onDragEnd were called once each and the engine is idle
C30_Witness ==
    /\ ev.type = "pointerup"
    /\ ev.detail = "window"
    /\ ev.before = "dragging"
    /\ Len(calls) = 3
    /\ calls[1].cb = "getItemPosition"
    /\ calls[1].el = "lane"
    /\ calls[2].cb = "onDrop"
    /\ calls[3].cb = "onDragEnd"
    /\ state = EmptyState

\* C31: cleanup is idempotent.  While no session exists the session fields
\* are all empty and nothing is marked or pending, and a pointerup, a
\* pointercancel, an Escape keydown, a mouseout that leaves the window or
\* destroy() leaves the state empty, removes and sets no marker, cancels no
\* frame and calls no host function.  From every state, running cleanup a
\* second time right after the first gives the state, the markers and the
\* calls the first one gave.
C31_CleanupIdempotent ==
    /\ (ev.before = "idle"
        /\ ev.type \in {"pointerup", "pointercancel", "keydown", "mouseout", "destroy"}) =>
          /\ calls = <<>>
          /\ state = EmptyState
          /\ dataDragging = {} /\ dataHovered = {}
          /\ ~ev.cancelled
    /\ (~SessionExists /\ AfterOtherKey) =>
          /\ state = EmptyState
          /\ rafId = NoRaf /\ lastPointerPos = NullPos
          /\ dataDragging = {} /\ dataHovered = {}
          /\ \A listeners \in {1, 2} :
                /\ Untouched(OnPointerCancel(listeners))
                /\ \A pt \in Points, pointerId \in EventPointerIds :
                   \A hostPosition \in {Null, PositionOf(DroppableAt(pt))} :
                      Untouched(OnPointerUp(pt, pointerId, hostPosition, listeners))
          /\ Untouched(OnKeyDown("Escape"))
          /\ Untouched(OnMouseOut(Null))
          /\ Untouched(OnDestroy)
          /\ ~OnDestroy.cancelled
    /\ AfterOtherKey =>
          LET once == cleanup(Machine)
              twice == cleanup(cleanup(Machine))
          IN  /\ twice = once
              /\ once.state = EmptyState
              /\ Times(once.calls, "onDragEnd") = IF isDragging THEN 1 ELSE 0

\* a pointercancel that found no session, after an earlier drag had been
\* ended: its cleanup ran on the state the previous cleanup left
C31_Witness ==
    /\ ev.type = "pointercancel"
    /\ ev.before = "idle"
    /\ ev.cleaned
    /\ calls = <<>>
    /\ fired["onDragStart"] = 1
    /\ fired["onDragEnd"] = 1
    /\ state = EmptyState

\* C32: the reads change nothing.  A step in which the host calls
\* isDragging(), or calls getState() and assigns to a field of the object it
\* got, leaves the session, the markers, the pointer capture, the pending
\* frame, the listeners and the callback counts as they were and calls no
\* host function; isDragging() returns the session's flag; the next
\* getState() holds the engine's field values, not the value the host wrote.
C32_ReadsChangeNothing ==
    [][ev'.type \in {"getState", "isDragging"} =>
          /\ UNCHANGED <<state, rafId, lastPointerPos, attached, dataDragging,
                         dataHovered, capture, frames, fired, config, peer>>
          /\ calls' = <<>>
          /\ ~ev'.cleaned /\ ~ev'.cancelled /\ ~ev'.scheduled /\ ~ev'.prevented
          /\ ev'.type = "isDragging" =>
                ev'.detail = IF state.isDragging THEN "true" ELSE "false"
          /\ ev'.type = "getState" =>
                /\ getState(Machine)'.fields = state
                /\ getState(Machine)'.fields[ev'.detail] # HostWrite(Machine, ev'.detail)
      ]_vars

\* during a drag with a frame pending the host took a snapshot and set its
\* isDragging to false: the engine is still dragging, the source is still
\* marked and the frame is still pending
C32_Witness ==
    /\ ev.type = "getState"
    /\ ev.detail = "isDragging"
    /\ ev.before = "dragging"
    /\ state.isDragging
    /\ state.sourceElement \in dataDragging
    /\ rafId # NoRaf
    /\ rafId \in frames

\* C33: the preview helper has at most one clone in the document, the one
\* it refers to.  startFromElement called twice in succession leaves exactly
\* the second call's clone, off-screen; stop and destroy leave none; stop,
\* destroy and moveToPointer called with no clone leave the document as it
\* is.
C33_OnePreviewClone ==
    /\ Cardinality(preview.clones) =< 1
    /\ \A c \in preview.clones : c.id = preview.previewElement
    /\ preview.previewElement # NoClone => preview.clones # {}
    /\ preview.last \in {"stop", "destroy"} => preview.clones = {}
    /\ stop(preview).clones = {}
    /\ destroyPreview(preview).clones = {}
    /\ \A first \in PreviewElements, second \in PreviewElements :
          LET one == startFromElement(preview, first)
              two == startFromElement(one, second)
          IN  /\ two.clones = {[id |-> two.previewElement, of |-> second,
                                transform |-> OFFSCREEN_TRANSFORM]}
              /\ two.previewElement \notin {NoClone, one.previewElement}
              /\ two.removed = one.previewElement
    /\ preview.previewElement = NoClone =>
          /\ stop(preview) = [preview EXCEPT !.last = "stop", !.removed = NoClone]
          /\ destroyPreview(preview) = [preview EXCEPT !.last = "destroy", !.removed = NoClone]
          /\ \A pos \in Points :
                moveToPointer(preview, pos)
                   = [preview EXCEPT !.last = "moveToPointer", !.removed = NoClone]

\* startFromElement was called while a preview was active: the earlier clone
\* was taken out and the document holds the new clone of the slot alone
C33_Witness ==
    /\ preview.last = "startFromElement"
    /\ preview.removed # NoClone
    /\ preview.clones = {[id |-> preview.previewElement, of |-> "slot",
                          transform |-> OFFSCREEN_TRANSFORM]}

\* C34: with the harness's wiring a preview clone exists between events
\* exactly while the engine is dragging.  There is one clone, of the source
\* element, once the threshold is crossed, and none after a drop, a release
\* that was only a click, a pointercancel or destroy().
C34_PreviewIffDragging ==
    /\ (preview.clones # {}) <=> state.isDragging
    /\ Cardinality(preview.clones) =< 1
    /\ state.isDragging =>
          \E c \in preview.clones :
             c.id = preview.previewElement /\ c.of = state.sourceElement
    /\ Fired(calls, "onDragStart") =>
          preview.clones = {[id |-> preview.previewElement, of |-> state.sourceElement,
                             transform |-> OFFSCREEN_TRANSFORM]}
    /\ (Fired(calls, "onDrop") \/ Fired(calls, "onClick")
        \/ ev.type \in {"pointercancel", "destroy"}) =>
          preview.clones = {} /\ preview.previewElement = NoClone
    /\ Fired(calls, "onDragEnd") => preview.last = "stop" /\ preview.removed # NoClone

\* a drop: the clone that followed the pointer was taken out by the
\* harness's onDragEnd and none is left
C34_Witness ==
    /\ ev.type = "pointerup"
    /\ Fired(calls, "onDrop")
    /\ fired["onDragMove"] = 1
    /\ preview.last = "stop"
    /\ preview.removed # NoClone
    /\ preview.clones = {}

\* the element itself and its ancestors, nearest first
RECURSIVE Lineage(_)
Lineage(element) ==
    IF element = Null THEN <<>> ELSE <<element>> \o Lineage(parentElement(element))

\* the place of the container in a lineage, or one past its end
Fence(lineage, container) ==
    IF \E i \in 1..Len(lineage) : lineage[i] = container
    THEN CHOOSE i \in 1..Len(lineage) : lineage[i] = container
    ELSE Len(lineage) + 1

\* C35: kind matching returns the nearest of the element and its ancestors,
\* the container and what lies above it left out, whose data-kind is in the
\* kind set, with that element's own kind, and nothing when there is none.
\* getItemPosition is always called with an element and that element's own
\* kind: a draggable kind at pick-up, a droppable kind at drop, whatever the
\* kind of the source.
C35_NearestKindMatch ==
    /\ \A i \in 1..Len(calls) :
          calls[i].cb = "getItemPosition" =>
             /\ calls[i].pos = datasetKind(calls[i].el)
             /\ ev.type \in {"pointerdown", "pointerup"}
             /\ ev.type = "pointerdown" => calls[i].pos \in draggableKinds
             /\ ev.type = "pointerup" => calls[i].pos \in droppableKinds
    /\ AfterOtherKey =>
          \A m \in {Machine, Peer}, element \in Elements \cup {Null} :
          \A kinds \in SUBSET {"card", "zone"} :
             LET lineage == Lineage(element)
                 fence == Fence(lineage, m.container)
                 matching == {i \in 1..(fence - 1) : datasetKind(lineage[i]) \in kinds}
                 found == findElementByKinds(m, element, kinds)
             IN  /\ matching = {} => found = [element |-> Null, kind |-> Null]
                 /\ matching # {} =>
                       LET nearest == CHOOSE i \in matching : \A j \in matching : i =< j
                       IN  found = [element |-> lineage[nearest],
                                    kind |-> datasetKind(lineage[nearest])]

\* the card was dropped on the zone: at the drop getItemPosition
\* was asked for the zone with the kind "zone", not with the card's kind
C35_Witness ==
    /\ ev.type = "pointerup"
    /\ Len(calls) = 3
    /\ calls[1].cb = "getItemPosition"
    /\ calls[1].el = "zone"
    /\ calls[1].pos = "zone"
    /\ calls[2].cb = "onDrop"
    /\ calls[2].pos = PositionOf("card")
    /\ calls[2].target = PositionOf("zone")

\* C36: onDragEnd fires at most once per session even when the host
\* re-enters the engine: when onDrop or onDragEnd calls destroy() while the
\* session is being ended, the end callback is not called a second time and
\* the cleanup comes to its end, with the state reset.
C36_EndOnceUnderReentry ==
    /\ Times(calls, "onDragEnd") =< 1
    /\ fired["onDragEnd"] =< 1
    /\ Fired(calls, "onDragEnd") => ev.cleaned /\ state = EmptyState

\* C37: between events the session is all or nothing.  The start
\* coordinates, the source element, the source position and the source item
\* are all empty or all populated; isDragging implies they are populated; a
\* hovered element, a pending frame handle and a stored latest pointer
\* position are each there only while dragging.
C37_SessionAllOrNothing ==
    /\ state.startPosition # NullPos <=> state.sourceElement # Null
    /\ state.startPosition # NullPos <=> state.sourcePosition # Null
    /\ state.startPosition # NullPos <=> state.sourceItem # Null
    /\ state.startPosition # NullPos =>
          /\ state.startPosition \in Points
          /\ Truthy(state.sourceElement)
          /\ Truthy(state.sourcePosition)
          /\ Truthy(state.sourceItem)
    /\ state.activePointerId # NoPointer => state.startPosition # NullPos
    /\ state.isDragging => state.startPosition # NullPos
    /\ state.lastHoveredElement # Null => state.isDragging
    /\ rafId # NoRaf => state.isDragging /\ rafId \in frames
    /\ lastPointerPos # NullPos => state.isDragging

\* a drag with a hovered element, a stored pointer position and a frame
\* pending
C37_Witness ==
    /\ state.isDragging
    /\ state.sourceItem = "item"
    /\ state.lastHoveredElement # Null
    /\ lastPointerPos # NullPos
    /\ rafId # NoRaf

\* C38: an instance whose host supplies no getItemData never leaves idle.
\* Every pointerdown stops at the item check: no session field is set, the
\* default is not prevented, the pointer is not captured, nothing is marked,
\* no frame is requested, getItemData is not called and none of onDragStart,
\* onDragMove, onDrop, onDragEnd and onClick ever fires.
C38_InertWithoutItemData ==
    "getItemData" \notin callbacks =>
       /\ state = EmptyState
       /\ rafId = NoRaf /\ frames = {} /\ lastPointerPos = NullPos
       /\ dataDragging = {} /\ dataHovered = {}
       /\ capture = Null
       /\ ~ev.prevented /\ ~ev.scheduled
       /\ \A cb \in Lifecycle : fired[cb] = 0 /\ ~Fired(calls, cb)
       /\ ~Fired(calls, "getItemData")
       /\ \A pt \in Points, pointerId \in EventPointerIds, willing \in BOOLEAN :
             LET m == OnPointerDown(pt, pointerId, PositionOf(DraggableAt(pt)),
                                    willing, "item", TRUE)
             IN  /\ m.state = EmptyState
                 /\ ~m.prevented
                 /\ m.capture = Null

\* a pointerdown on a card the host resolved and allowed to drag, from a
\* host with every callback but getItemData: nothing was armed
C38_Witness ==
    /\ callbacks = AllCallbacks \ {"getItemData"}
    /\ ev.type = "pointerdown"
    /\ Len(calls) = 2
    /\ calls[1].cb = "getItemPosition"
    /\ calls[1].el = "card"
    /\ calls[2].cb = "canDrag"
    /\ state = EmptyState
    /\ ~ev.prevented

\* a pointermove of the session's pointer arrived while the session was
\* dragging
MoveWhileDragging ==
    /\ ev.type = "pointermove"
    /\ ev.before = "dragging"
    /\ FromSessionPointer(ev.pointerId)

\* the frame callback called onDragMove with the latest position stored
MoveDelivered ==
    /\ ev.type = "frame"
    /\ Len(calls) = 1
    /\ calls[1].cb = "onDragMove"
    /\ calls[1].pt = lastPointerPos

\* C39: if every requested frame runs unless it is cancelled, no move
\* received while dragging is lost.  Such a move of the session's pointer
\* leaves its coordinates as the latest position with a frame pending, the
\* latest position changes only by a later such move, and the move is
\* followed by an onDragMove that carries the latest position, or by the end
\* of the session.
C39_MoveEventuallyDelivered ==
    /\ [](MoveWhileDragging =>
             /\ state.isDragging
             /\ lastPointerPos # NullPos
             /\ Coordinates(lastPointerPos) = ev.detail
             /\ rafId # NoRaf /\ rafId \in frames)
    /\ [][(lastPointerPos' # lastPointerPos /\ state'.isDragging) => MoveWhileDragging']_vars
    /\ (MoveWhileDragging ~> (MoveDelivered \/ ~state.isDragging))

\* a frame ran during a drag and onDragMove got the stored position, over
\* the zone
C39_Witness ==
    /\ MoveDelivered
    /\ state.isDragging
    /\ lastPointerPos = [x |-> 1, y |-> 0]
    /\ calls[1].el = "zone"

====
